---- MODULE Spec2Model ----
(***************************************************************************)
(* zerologctx: a go/analysis pass that reports terminal calls (Msg, Msgf,  *)
(* MsgFunc, Send) on zerolog Event chains that carry no Ctx(ctx).          *)
(*                                                                         *)
(* The model follows run() in zerologctx.go: inspector.Preorder delivers   *)
(* the AssignStmt and CallExpr nodes of the analysed files in source order,*)
(* and the callback updates loggersWithContext, eventsWithContext,         *)
(* ctxChainCache and the list of reported diagnostics.                     *)
(*                                                                         *)
(* An expression is a record [root, calls]: root.c1(..).c2(..)...; every   *)
(* call carries the type go/types resolved for it (pass.TypesInfo).        *)
(* Go strings that the code takes apart (type strings, comment texts) are  *)
(* tuples of one-character strings.                                        *)
(***************************************************************************)
EXTENDS Integers, Sequences, FiniteSets, TLC

VARIABLES
    prog,                \* statements of the analysed files handed to the traversal so far
    comments,            \* pass.Files[i].Comments: set of [line, text]
    pending,             \* nodes of the current statement still to be delivered by Preorder
    loggersWithContext,  \* names with loggersWithContext[name] = true
    eventsWithContext,   \* names with eventsWithContext[name] = true
    ctxChainCache,       \* set of [node, result]: the memo table keyed by expression node
    diags,               \* diagnostics reported through pass.Reportf, in order
    helperCall,          \* the last direct call of a helper function: [fn, ...arguments], <<>> before any
    helperResult,        \* the value that call returned
    returned             \* <<>> while run is at work, then the pair <<result, error>> it returned

vars == <<prog, comments, pending, loggersWithContext, eventsWithContext, ctxChainCache, diags,
          helperCall, helperResult, returned>>

-----------------------------------------------------------------------------
(* Go strings *)

strZerologEvent == <<"z","e","r","o","l","o","g",".","E","v","e","n","t">>
strContextContext == <<"c","o","n","t","e","x","t",".","C","o","n","t","e","x","t">>
strPtrContextContext == <<"*","c","o","n","t","e","x","t",".","C","o","n","t","e","x","t">>
strSlashes == <<"/","/">>
strNolint == <<"n","o","l","i","n","t">>
strColon == <<":">>
strZerologctx == <<"z","e","r","o","l","o","g","c","t","x">>

IsSpace(c) == c \in {" ", "\t"}

\* strings.HasPrefix
HasPrefix(s, p) == Len(s) >= Len(p) /\ SubSeq(s, 1, Len(p)) = p

\* strings.TrimPrefix
TrimPrefix(s, p) == IF HasPrefix(s, p) THEN SubSeq(s, Len(p) + 1, Len(s)) ELSE s

\* strings.Contains
Contains(s, sub) == \E i \in 0..(Len(s) - Len(sub)) : SubSeq(s, i + 1, i + Len(sub)) = sub

RECURSIVE TrimLeft(_)
TrimLeft(s) == IF s # <<>> /\ IsSpace(Head(s)) THEN TrimLeft(Tail(s)) ELSE s

RECURSIVE TrimRight(_)
TrimRight(s) == IF s # <<>> /\ IsSpace(s[Len(s)]) THEN TrimRight(SubSeq(s, 1, Len(s) - 1)) ELSE s

\* strings.TrimSpace
TrimSpace(s) == TrimRight(TrimLeft(s))

\* strings.Split(s, ","): the pieces between commas, at least one piece
RECURSIVE SplitComma(_, _)
SplitComma(s, acc) ==
    IF s = <<>> THEN <<acc>>
    ELSE IF Head(s) = "," THEN <<acc>> \o SplitComma(Tail(s), <<>>)
    ELSE SplitComma(Tail(s), Append(acc, Head(s)))

-----------------------------------------------------------------------------
(* Types as go/types resolves them; "none" stands for a nil types.Type *)

TypeString(t) ==
    CASE t = "Event" -> <<"*","g","i","t","h","u","b",".","c","o","m","/","r","s","/","z","e","r","o","l","o","g",".","E","v","e","n","t">>
      [] t = "Logger" -> <<"g","i","t","h","u","b",".","c","o","m","/","r","s","/","z","e","r","o","l","o","g",".","L","o","g","g","e","r">>
      [] t = "LoggerPtr" -> <<"*","g","i","t","h","u","b",".","c","o","m","/","r","s","/","z","e","r","o","l","o","g",".","L","o","g","g","e","r">>
      [] t = "Context" -> <<"*","g","i","t","h","u","b",".","c","o","m","/","r","s","/","z","e","r","o","l","o","g",".","C","o","n","t","e","x","t">>
      [] t = "ctx" -> <<"c","o","n","t","e","x","t",".","C","o","n","t","e","x","t">>
      [] t = "string" -> <<"s","t","r","i","n","g">>
      [] t = "nil" -> <<"u","n","t","y","p","e","d"," ","n","i","l">>
      [] t = "CustomCtxPtr" -> <<"*","t","e","s","t","p","k","g",".","C","u","s","t","o","m","C","o","n","t","e","x","t">>
      [] t = "CustomCtx" -> <<"t","e","s","t","p","k","g",".","C","u","s","t","o","m","C","o","n","t","e","x","t">>
      [] t = "App" -> <<"*","t","e","s","t","p","k","g",".","A","p","p">>
      [] t = "StdContextPtr" -> <<"*","c","o","n","t","e","x","t",".","C","o","n","t","e","x","t">>
      [] t = "VendoredContext" -> <<"g","i","t","h","u","b",".","c","o","m","/","p","k","g","/","c","o","n","t","e","x","t",".","C","o","n","t","e","x","t">>
      [] t = "IfaceContext" -> <<"i","n","t","e","r","f","a","c","e","{","c","o","n","t","e","x","t",".","C","o","n","t","e","x","t","}">>
      [] t = "BareContext" -> <<"C","o","n","t","e","x","t">>
      [] t = "Contextual" -> <<"c","o","n","t","e","x","t","u","a","l">>
      [] t = "FooContext" -> <<"f","o","o",".","C","o","n","t","e","x","t">>
      [] t = "DbContext" -> <<"d","b",".","C","o","n","t","e","x","t">>
      [] t = "CustomContext" -> <<"c","u","s","t","o","m",".","C","o","n","t","e","x","t">>
      [] t = "AppContext" -> <<"e","x","a","m","p","l","e",".","c","o","m","/","a","p","p","c","o","n","t","e","x","t",".","C","o","n","t","e","x","t">>
      [] t = "PartialCtx" -> <<"t","e","s","t","p","k","g",".","P","a","r","t","i","a","l","C","o","n","t","e","x","t">>
      [] t = "PartialCtxPtr" -> <<"*","t","e","s","t","p","k","g",".","P","a","r","t","i","a","l","C","o","n","t","e","x","t">>
      [] t = "GinContext" -> <<"g","i","t","h","u","b",".","c","o","m","/","g","i","n","-","g","o","n","i","c","/","g","i","n",".","C","o","n","t","e","x","t">>
      [] t = "GinContextPtr" -> <<"*","g","i","t","h","u","b",".","c","o","m","/","g","i","n","-","g","o","n","i","c","/","g","i","n",".","C","o","n","t","e","x","t">>
      [] t = "Canceler" -> <<"t","e","s","t","p","k","g",".","C","a","n","c","e","l","e","r">>
      [] t = "CancelerPtr" -> <<"*","t","e","s","t","p","k","g",".","C","a","n","c","e","l","e","r">>
      [] OTHER -> <<>>

ContextMethods == {"Deadline", "Done", "Err", "Value"}

\* types.NewMethodSet(typ): the method names
MethodSet(t) ==
    CASE t = "ctx" -> ContextMethods
      [] t = "CustomCtxPtr" -> ContextMethods
      [] t = "CustomCtx" -> ContextMethods
      [] t = "IfaceContext" -> ContextMethods
      [] t = "PartialCtx" -> {"Deadline", "Done", "Err"}
      [] t = "PartialCtxPtr" -> {"Deadline", "Done", "Err"}
      [] t = "GinContextPtr" -> ContextMethods \cup {"Next", "Abort"}
      [] t = "GinContext" -> {}
      [] t = "Canceler" -> ContextMethods \cup {"Cancel"}
      [] t = "CancelerPtr" -> {}
      [] t = "Event" -> {"Ctx", "Str", "Msg", "Msgf", "MsgFunc", "Send"}
      [] t = "Logger" -> {"Info", "With"}
      [] t = "LoggerPtr" -> {"Info", "With"}
      [] t = "Context" -> {"Ctx", "Str", "Logger"}
      [] OTHER -> {}

IsPointer(t) == t \in {"Event", "LoggerPtr", "Context", "CustomCtxPtr", "App",
                      "PartialCtxPtr", "GinContextPtr", "CancelerPtr", "StdContextPtr"}

Elem(t) ==
    CASE t = "CustomCtxPtr" -> "CustomCtx"
      [] t = "LoggerPtr" -> "Logger"
      [] t = "StdContextPtr" -> "ctx"
      [] t = "PartialCtxPtr" -> "PartialCtx"
      [] t = "GinContextPtr" -> "GinContext"
      [] t = "CancelerPtr" -> "Canceler"
      [] OTHER -> "elem"

implementsContextInterface(t) == \A m \in ContextMethods : m \in MethodSet(t)

\* isContextType that accepts every resolved type (the Ctx argument is not validated)
\* isContextType that accepts the two exact type strings only, besides the method set test
\* isContextType that answers false once a diagnostic has been reported
isContextTypeUntilReport(t) ==
    /\ diags = <<>>
    /\ t # "none"
    /\ \/ Contains(TypeString(t), strContextContext)
       \/ \A m \in ContextMethods : m \in MethodSet(t)
       \/ (IsPointer(t) /\ \A m \in ContextMethods : m \in MethodSet(Elem(t)))
isContextTypeExact(t) ==
    /\ t # "none"
    /\ \/ TypeString(t) = strContextContext
       \/ TypeString(t) = strPtrContextContext
       \/ \A m \in ContextMethods : m \in MethodSet(t)
       \/ (IsPointer(t) /\ \A m \in ContextMethods : m \in MethodSet(Elem(t)))
isContextTypeAny(t) == t # "none"

\* isContextType with the earlier suffix test instead of the method set test
isContextTypeSuffix(t) ==
    /\ t # "none"
    /\ \/ Contains(TypeString(t), strContextContext)
       \/ (Len(TypeString(t)) >= 8
           /\ SubSeq(TypeString(t), Len(TypeString(t)) - 7, Len(TypeString(t)))
                = <<".","C","o","n","t","e","x","t">>)

\* isContextType that does not look at the pointee of a pointer
isContextTypeNoElem(t) ==
    /\ t # "none"
    /\ (Contains(TypeString(t), strContextContext) \/ \A m \in ContextMethods : m \in MethodSet(t))

isContextType(t) ==
    IF t = "none" THEN FALSE
    ELSE IF TypeString(t) = strContextContext THEN TRUE
    ELSE IF TypeString(t) = strPtrContextContext THEN TRUE
    ELSE IF Contains(TypeString(t), strContextContext) THEN TRUE
    ELSE IF IsPointer(t) /\ (implementsContextInterface(t) \/ implementsContextInterface(Elem(t))) THEN TRUE
    ELSE implementsContextInterface(t)

-----------------------------------------------------------------------------
(* Expressions: [root |-> [kind, name, type], calls |-> <<[name, args, type], ...>>]
   root.kind: "ident"   an *ast.Ident (a variable or an imported package name)
              "selector" a field selection such as app.logger
              "call"     a call whose Fun is no selector, such as getLogger()
              "lit"      any other expression (composite literal, &T{...})
   calls[k].args are the resolved types of the arguments, calls[k].type the
   resolved type of the call expression itself. *)

Last(s) == s[Len(s)]
Front(s) == SubSeq(s, 1, Len(s) - 1)

\* expr.(*ast.CallExpr) succeeds and call.Fun.(*ast.SelectorExpr) succeeds
IsSelectorCall(e) == Len(e.calls) > 0

\* expr.(*ast.Ident) succeeds
IsIdent(e) == Len(e.calls) = 0 /\ e.root.kind = "ident"

\* sel.X of a selector call
Receiver(e) == [root |-> e.root, calls |-> Front(e.calls)]

\* sel.Sel.Name of a selector call
SelName(e) == Last(e.calls).name

\* call.Args of a selector call
CallArgs(e) == Last(e.calls).args

\* pass.TypesInfo.Types[expr].Type / pass.TypesInfo.TypeOf(expr)
TypeOf(e) == IF e.calls = <<>> THEN e.root.type ELSE Last(e.calls).type

terminalMethods == {"Msg", "Msgf", "MsgFunc", "Send"}

logLevelMethods == {"Info", "Error", "Debug", "Warn", "Fatal", "Panic", "Trace", "Log"}

\* the receiver type test of run and hasCtxInChain
\* the receiver type test without the test for missing type information
IsEventTypeUnchecked(t) == t = "none" \/ Contains(TypeString(t), strZerologEvent)
IsEventType(t) == t # "none" /\ Contains(TypeString(t), strZerologEvent)

\* hasCtxInChain without the test of the receiver's type: Ctx on any receiver counts
RECURSIVE hasCtxInChainAnyReceiver(_)
hasCtxInChainAnyReceiver(e) ==
    IF ~IsSelectorCall(e) THEN FALSE
    ELSE IF /\ SelName(e) = "Ctx"
            /\ Len(CallArgs(e)) > 0
            /\ CallArgs(e)[1] # "none"
            /\ isContextType(CallArgs(e)[1])
         THEN TRUE
         ELSE hasCtxInChainAnyReceiver(Receiver(e))

\* hasCtxInChain without the walk up the chain: only the last call is looked at
\* hasCtxInChain that stops at the first Ctx call it meets, valid or not
RECURSIVE hasCtxInChainStopAtCtx(_)
hasCtxInChainStopAtCtx(e) ==
    IF ~IsSelectorCall(e) THEN FALSE
    ELSE IF SelName(e) = "Ctx"
         THEN /\ Len(CallArgs(e)) > 0
              /\ CallArgs(e)[1] # "none"
              /\ isContextType(CallArgs(e)[1])
              /\ IsEventType(TypeOf(Receiver(e)))
         ELSE hasCtxInChainStopAtCtx(Receiver(e))
hasCtxInChainLastOnly(e) ==
    /\ IsSelectorCall(e)
    /\ SelName(e) = "Ctx"
    /\ Len(CallArgs(e)) > 0
    /\ CallArgs(e)[1] # "none"
    /\ isContextType(CallArgs(e)[1])
    /\ IsEventType(TypeOf(Receiver(e)))

RECURSIVE hasCtxInChain(_)
hasCtxInChain(e) ==
    IF ~IsSelectorCall(e) THEN FALSE
    ELSE IF /\ SelName(e) = "Ctx"
            /\ Len(CallArgs(e)) > 0
            /\ CallArgs(e)[1] # "none"
            /\ isContextType(CallArgs(e)[1])
            /\ IsEventType(TypeOf(Receiver(e)))
         THEN TRUE
         ELSE hasCtxInChain(Receiver(e))

RECURSIVE hasCtxInContextChain(_)
hasCtxInContextChain(e) ==
    IF ~IsSelectorCall(e) THEN FALSE
    ELSE IF /\ SelName(e) = "Ctx"
            /\ Len(CallArgs(e)) > 0
            /\ CallArgs(e)[1] # "none"
            /\ isContextType(CallArgs(e)[1])
         THEN TRUE
         ELSE hasCtxInContextChain(Receiver(e))

isLoggerWithContext(e) ==
    /\ IsSelectorCall(e)
    /\ SelName(e) = "Logger"
    /\ hasCtxInContextChain(Receiver(e))

RECURSIVE isEventFromLoggerWithContext(_, _)
isEventFromLoggerWithContext(e, loggers) ==
    IF ~IsSelectorCall(e) THEN FALSE
    ELSE IF /\ SelName(e) \in logLevelMethods
            /\ IsIdent(Receiver(e))
            /\ Receiver(e).root.name \in loggers
         THEN TRUE
         ELSE isEventFromLoggerWithContext(Receiver(e), loggers)

\* isEventFromVariableWithContext that only accepts the bare identifier
isEventFromVariableDirectOnly(e, events) == IsIdent(e) /\ e.root.name \in events

RECURSIVE isEventFromVariableWithContext(_, _)
isEventFromVariableWithContext(e, events) ==
    IF IsIdent(e) THEN e.root.name \in events
    ELSE IF ~IsSelectorCall(e) THEN FALSE
    ELSE IF IsIdent(Receiver(e)) /\ Receiver(e).root.name \in events THEN TRUE
    ELSE isEventFromVariableWithContext(Receiver(e), events)

\* isEventWithContext that never holds: Event variables are not tracked
isEventWithContextNever(e, events) == FALSE

\* isEventWithContext that holds for every expression of type Event
isEventWithContextAnyEvent(e, events) == IsEventType(TypeOf(e))

isEventWithContext(e, events) ==
    /\ IsEventType(TypeOf(e))
    /\ (hasCtxInChain(e) \/ isEventFromVariableWithContext(e, events))

\* isNoLintComment that looks for the linter name anywhere after the colon
isNoLintCommentContains(commentText, linterName) ==
    LET text1 == TrimSpace(TrimPrefix(commentText, strSlashes))
        text2 == TrimPrefix(text1, strNolint)
    IN  /\ HasPrefix(text1, strNolint)
        /\ HasPrefix(text2, strColon)
        /\ Contains(text2, linterName)
isNoLintComment(commentText, linterName) ==
    LET text1 == TrimSpace(TrimPrefix(commentText, strSlashes))
        text2 == TrimPrefix(text1, strNolint)
        text3 == TrimSpace(TrimPrefix(text2, strColon))
        linters == SplitComma(text3, <<>>)
    IN  /\ HasPrefix(text1, strNolint)
        /\ HasPrefix(text2, strColon)
        /\ \E i \in 1..Len(linters) : TrimSpace(linters[i]) = linterName

\* hasNoLintDirective that accepts a comment up to two lines above the node
\* hasNoLintDirective that accepts a comment on the node's own line only
hasNoLintDirectiveSameLine(cs, nodeFile, nodeLine) ==
    \E c \in cs :
        /\ c.file = nodeFile
        /\ c.line = nodeLine
        /\ isNoLintComment(c.text, strZerologctx)
hasNoLintDirectiveTwoAbove(cs, nodeFile, nodeLine) ==
    \E c \in cs :
        /\ c.file = nodeFile
        /\ (c.line = nodeLine \/ c.line = nodeLine - 1 \/ c.line = nodeLine - 2)
        /\ isNoLintComment(c.text, strZerologctx)

\* hasNoLintDirective that looks at the comments of every file of the pass
hasNoLintDirectiveAnyFile(cs, nodeFile, nodeLine) ==
    \E c \in cs :
        /\ (c.line = nodeLine \/ c.line = nodeLine - 1)
        /\ isNoLintComment(c.text, strZerologctx)

\* cs holds the comments of all files of the pass, nodeFile is the file
\* call.Pos() lies in and nodeLine is file.Line(call.Pos())
hasNoLintDirective(cs, nodeFile, nodeLine) ==
    \E c \in cs :
        /\ c.file = nodeFile
        /\ (c.line = nodeLine \/ c.line = nodeLine - 1)
        /\ isNoLintComment(c.text, strZerologctx)

\* a message that always names Msg
MessageAlwaysMsg(methodName) ==
    <<"zerolog event missing .Ctx(ctx) before ", "Msg",
      "() - context should be included for proper log correlation">>

\* the message pass.Reportf formats
Message(methodName) ==
    <<"zerolog event missing .Ctx(ctx) before ", methodName,
      "() - context should be included for proper log correlation">>

-----------------------------------------------------------------------------
(* Statements and the nodes inspector.Preorder delivers for them.
   A statement is [kind, lhs, rhs, above, trail, gap, line]:
     kind "assign": an *ast.AssignStmt with targets lhs and sources rhs
     kind "expr":   an expression statement (also defer/go/return) holding rhs[1]
     kind "decl":   a var declaration (GenDecl/ValueSpec) with names lhs, values rhs
   lhs[i] is [kind |-> "ident" or "selector", name]; rhs[i] is an expression.
   Calls nested inside a "lit" root are listed in root.inner (a sequence of
   expressions) and are visited after the literal's own node.
   above/trail are the texts of a comment on the line before / on the same
   line (<<>> when there is none); gap counts blank lines before the statement.
   cont counts the further lines a statement written over several lines takes
   and mid is the text of a comment at the end of its last line.  newfile
   says that the statement is the first one of the next file of the pass;
   file and line are filled in when the traversal reaches the statement. *)

\* the CallExpr nodes of one expression in pre-order: outermost call first
RECURSIVE CallNodes(_, _, _)
CallNodes(e, stmt, slot) ==
    IF IsSelectorCall(e)
    THEN <<[kind |-> "CallExpr", expr |-> e, stmt |-> stmt, slot |-> slot]>>
         \o CallNodes(Receiver(e), stmt, slot)
    ELSE IF e.root.kind = "call"
    THEN <<[kind |-> "CallExpr", expr |-> e, stmt |-> stmt, slot |-> slot]>>
    ELSE <<>>

\* the expressions nested in a literal root, visited after the literal itself
InnerExprs(e) == IF e.root.kind = "lit" THEN e.root.inner ELSE <<>>

RECURSIVE InnerNodes(_, _, _, _)
InnerNodes(es, stmt, i, j) ==
    IF j > Len(es) THEN <<>>
    ELSE CallNodes(es[j], stmt, <<i, j>>) \o InnerNodes(es, stmt, i, j + 1)

\* slot <<i, 0>> is rhs[i], slot <<i, j>> the j-th expression nested in it
RECURSIVE ExprListNodes(_, _, _)
ExprListNodes(es, stmt, i) ==
    IF i > Len(es) THEN <<>>
    ELSE CallNodes(es[i], stmt, <<i, 0>>)
         \o InnerNodes(InnerExprs(es[i]), stmt, i, 1)
         \o ExprListNodes(es, stmt, i + 1)

\* a traversal that delivers every node of a statement twice
StmtNodesTwice(s, stmt) ==
    (IF s.kind = "assign" THEN <<[kind |-> "AssignStmt", stmt |-> stmt]>> ELSE <<>>)
    \o ExprListNodes(s.rhs, stmt, 1) \o ExprListNodes(s.rhs, stmt, 1)

StmtNodes(s, stmt) ==
    (IF s.kind = "assign" THEN <<[kind |-> "AssignStmt", stmt |-> stmt]>> ELSE <<>>)
    \o ExprListNodes(s.rhs, stmt, 1)

\* the key an expression node has in map[ast.Expr]bool: node identity
NodeKey(stmt, slot, e) == [stmt |-> stmt, slot |-> slot, depth |-> Len(e.calls)]

-----------------------------------------------------------------------------
(* The traversal *)

Init ==
    /\ prog = <<>>
    /\ comments = {}
    /\ pending = <<>>
    /\ loggersWithContext = {}
    /\ eventsWithContext = {}
    /\ ctxChainCache = <<>>
    /\ diags = <<>>
    /\ helperCall = <<>>
    /\ helperResult = FALSE
    /\ returned = <<>>

\* last line taken by the statements read so far
LastLine == IF prog = <<>> THEN 0 ELSE prog[Len(prog)].line + prog[Len(prog)].cont

\* the file statement s belongs to and the last line used in that file before s
FileOf(s) ==
    IF prog = <<>> THEN 1
    ELSE prog[Len(prog)].file + (IF s.newfile THEN 1 ELSE 0)
LineBefore(s) == IF s.newfile THEN 0 ELSE LastLine

\* the line statement s starts on when it follows the statements read so far
LineOf(s) == LineBefore(s) + (IF s.above # <<>> THEN 1 ELSE 0) + s.gap + 1

CommentsOf(s) ==
    (IF s.above # <<>>
     THEN {[file |-> FileOf(s), line |-> LineBefore(s) + 1, text |-> s.above]} ELSE {})
    \cup (IF s.trail # <<>>
          THEN {[file |-> FileOf(s), line |-> LineOf(s), text |-> s.trail]} ELSE {})
    \cup (IF s.mid # <<>>
          THEN {[file |-> FileOf(s), line |-> LineOf(s) + s.cont, text |-> s.mid]} ELSE {})

\* Preorder moves on to the next statement of the input: one of stmts
NextStmt(stmts, max) ==
    /\ returned = <<>>
    /\ pending = <<>>
    /\ Len(prog) < max
    /\ \E s \in stmts :
        /\ prog' = Append(prog, [s EXCEPT !.line = LineOf(s), !.file = FileOf(s)])
        /\ comments' = comments \cup CommentsOf(s)
        /\ pending' = StmtNodes(s, Len(prog) + 1)
    /\ UNCHANGED <<loggersWithContext, eventsWithContext, ctxChainCache, diags>>
    /\ UNCHANGED <<helperCall, helperResult, returned>>

\* the loop over node.Lhs of case *ast.AssignStmt, from index i on;
\* yields the two tracking maps after the loop
RECURSIVE AssignLoop(_, _, _, _)
AssignLoop(s, i, loggers, events) ==
    IF i > Len(s.lhs) \/ i > Len(s.rhs) THEN [loggers |-> loggers, events |-> events]
    ELSE IF s.lhs[i].kind # "ident" THEN AssignLoop(s, i + 1, loggers, events)
    ELSE IF Len(s.rhs) = 1 /\ Len(s.lhs) > 1 THEN AssignLoop(s, i + 1, loggers, events)
    ELSE IF isLoggerWithContext(s.rhs[i])
         THEN AssignLoop(s, i + 1, loggers \cup {s.lhs[i].name}, events)
    ELSE IF isEventWithContext(s.rhs[i], events)
         THEN AssignLoop(s, i + 1, loggers, events \cup {s.lhs[i].name})
    ELSE AssignLoop(s, i + 1, loggers, events)

\* case *ast.AssignStmt
\* case *ast.AssignStmt that also reports a diagnostic at the assignment
VisitAssignStmtReporting ==
    /\ pending # <<>>
    /\ Head(pending).kind = "AssignStmt"
    /\ LET r == AssignLoop(prog[Head(pending).stmt], 1, loggersWithContext, eventsWithContext)
       IN  /\ loggersWithContext' = r.loggers
           /\ eventsWithContext' = r.events
    /\ diags' = Append(diags, [pos |-> prog[Head(pending).stmt].line,
                               file |-> prog[Head(pending).stmt].file,
                               msg |-> <<>>])
    /\ pending' = Tail(pending)
    /\ UNCHANGED <<prog, comments, ctxChainCache, helperCall, helperResult, returned>>
VisitAssignStmt ==
    /\ pending # <<>>
    /\ Head(pending).kind = "AssignStmt"
    /\ LET r == AssignLoop(prog[Head(pending).stmt], 1, loggersWithContext, eventsWithContext)
       IN  /\ loggersWithContext' = r.loggers
           /\ eventsWithContext' = r.events
    /\ pending' = Tail(pending)
    /\ UNCHANGED <<prog, comments, ctxChainCache, diags, helperCall, helperResult, returned>>

\* the early returns of case *ast.CallExpr: true when the call is a terminal
\* method called on a receiver whose type is a zerolog Event
IsTerminalEventCall(e) ==
    /\ IsSelectorCall(e)
    /\ IsEventType(TypeOf(Receiver(e)))
    /\ SelName(e) \in terminalMethods

\* hasCtxInChainCached: the value returned
CachedResult(cache, key, e) ==
    IF key \in DOMAIN cache THEN cache[key] ELSE hasCtxInChain(e)

\* hasCtxInChainCached: the cache afterwards
\* hasCtxInChainCached that stores false whatever hasCtxInChain found
CacheAfterFalse(cache, key, e) ==
    [k \in (DOMAIN cache) \cup {key} |-> IF k = key THEN FALSE ELSE cache[k]]

\* hasCtxInChainCached that computes and stores again when the key is present
CacheAfterRecompute(cache, key, e) ==
    [k \in (DOMAIN cache) \cup {key} |-> IF k = key THEN ~hasCtxInChain(e) ELSE cache[k]]
CacheAfter(cache, key, e) ==
    IF key \in DOMAIN cache THEN cache
    ELSE [k \in (DOMAIN cache) \cup {key} |-> IF k = key THEN hasCtxInChain(e) ELSE cache[k]]

\* hasContext as run computes it for the receiver x of a terminal call
HasContext(cache, key, x, loggers, events) ==
    \/ CachedResult(cache, key, x)
    \/ isEventFromLoggerWithContext(x, loggers)
    \/ isEventFromVariableWithContext(x, events)

\* case *ast.CallExpr
\* case *ast.CallExpr that also records the root variable of a call chain
\* that holds a valid Ctx call as a context-bearing event
VisitCallExprRecording ==
    /\ pending # <<>>
    /\ Head(pending).kind = "CallExpr"
    /\ LET n == Head(pending)
           e == n.expr
           x == Receiver(e)
           key == NodeKey(n.stmt, n.slot, x)
           pos == prog[n.stmt].line
       IN  /\ eventsWithContext' =
                 IF hasCtxInChain(e) THEN eventsWithContext \cup {e.root.name}
                 ELSE eventsWithContext
           /\ IF ~IsTerminalEventCall(e)
              THEN UNCHANGED <<ctxChainCache, diags>>
              ELSE /\ ctxChainCache' = CacheAfter(ctxChainCache, key, x)
                   /\ IF /\ ~HasContext(ctxChainCache, key, x, loggersWithContext, eventsWithContext)
                         /\ ~hasNoLintDirective(comments, prog[n.stmt].file, pos)
                      THEN diags' = Append(diags, [pos |-> pos, file |-> prog[n.stmt].file,
                                                   msg |-> Message(SelName(e))])
                      ELSE UNCHANGED diags
    /\ pending' = Tail(pending)
    /\ UNCHANGED <<prog, comments, loggersWithContext, helperCall, helperResult, returned>>
VisitCallExpr ==
    /\ pending # <<>>
    /\ Head(pending).kind = "CallExpr"
    /\ LET n == Head(pending)
           e == n.expr
           x == Receiver(e)
           key == NodeKey(n.stmt, n.slot, x)
           pos == prog[n.stmt].line
       IN  IF ~IsTerminalEventCall(e)
           THEN UNCHANGED <<ctxChainCache, diags>>
           ELSE /\ ctxChainCache' = CacheAfter(ctxChainCache, key, x)
                /\ IF /\ ~HasContext(ctxChainCache, key, x, loggersWithContext, eventsWithContext)
                      /\ ~hasNoLintDirective(comments, prog[n.stmt].file, pos)
                   THEN diags' = Append(diags, [pos |-> pos, file |-> prog[n.stmt].file,
                                                msg |-> Message(SelName(e))])
                   ELSE UNCHANGED diags
    /\ pending' = Tail(pending)
    /\ UNCHANGED <<prog, comments, loggersWithContext, eventsWithContext, helperCall, helperResult,
                   returned>>

\* Preorder has delivered every node of the input: run returns nil, nil
Return ==
    /\ returned = <<>>
    /\ pending = <<>>
    /\ returned' = <<"nil", "nil">>
    /\ UNCHANGED <<prog, comments, pending, loggersWithContext, eventsWithContext, ctxChainCache,
                   diags, helperCall, helperResult>>

-----------------------------------------------------------------------------
(* Inputs: Go source as the parser and type checker hand it to the pass *)

Ident(n, t, o) == [kind |-> "ident", name |-> n, type |-> t, obj |-> o]
\* an imported package name: go/types records no type for it
Pkg(n) == Ident(n, "none", 0)
Call(n, args, t) == [name |-> n, args |-> args, type |-> t]
Expr(root, calls) == [root |-> root, calls |-> calls]
Extend(e, cs) == [root |-> e.root, calls |-> e.calls \o cs]

Target(n, o) == [kind |-> "ident", name |-> n, obj |-> o]
Stmt(k, lhs, rhs, above, trail, gap) ==
    [kind |-> k, lhs |-> lhs, rhs |-> rhs, above |-> above, trail |-> trail,
     gap |-> gap, cont |-> 0, mid |-> <<>>, newfile |-> FALSE, file |-> 0, line |-> 0]
Assign(n, e) == Stmt("assign", <<Target(n, 1)>>, <<e>>, <<>>, <<>>, 0)
ExprStmt(e) == Stmt("expr", <<>>, <<e>>, <<>>, <<>>, 0)

cmtNolint == <<"/","/","n","o","l","i","n","t",":","z","e","r","o","l","o","g","c","t","x">>
cmtNolintSpaced == <<"/","/"," ","n","o","l","i","n","t",":"," ","o","t","h","e","r",","," ","z","e","r","o","l","o","g","c","t","x">>
cmtOther == <<"/","/","n","o","l","i","n","t",":","s","o","m","e","o","t","h","e","r","l","i","n","t","e","r">>
cmtPlain == <<"/","/"," ","J","u","s","t"," ","a"," ","r","e","g","u","l","a","r"," ","c","o","m","m","e","n","t">>

Level(m) == Call(m, <<>>, "Event")
Str == Call("Str", <<"string", "string">>, "Event")
Ctx(argType) == Call("Ctx", <<argType>>, "Event")
Terminal(m) == Call(m, IF m = "Send" THEN <<>> ELSE <<"string">>, "void")

\* log.With(), the Context builder calls, and Logger()
With == Call("With", <<>>, "Context")
WithStr == Call("Str", <<"string", "string">>, "Context")
WithCtx(argType) == Call("Ctx", <<argType>>, "Context")
Logger == Call("Logger", <<>>, "Logger")

logInfo == Expr(Pkg("log"), <<Level("Info")>>)
ctxLogger == Expr(Pkg("log"), <<With, WithCtx("ctx"), Logger>>)
plainLogger == Expr(Pkg("log"), <<With, WithStr, Logger>>)
\* log.Ctx(ctx) returns a *zerolog.Logger
logCtx == Expr(Pkg("log"), <<Call("Ctx", <<"ctx">>, "LoggerPtr")>>)

\* all sequences over ops of length at most n
SeqsUpTo(ops, n) == UNION {[1..k -> ops] : k \in 0..n}

-----------------------------------------------------------------------------
(* Spec: two statements drawn from a set that mixes assignments that do and
   do not establish tracking with terminal and non-terminal calls on every
   kind of receiver *)

MaxStmts == 2

EventBases ==
    { logInfo,
      Expr(Ident("x", "Logger", 1), <<Level("Info")>>),
      Expr(Ident("x", "Logger", 1), <<Call("WithLevel", <<"level">>, "Event")>>),
      Expr(Ident("x", "Event", 1), <<>>),
      Expr(Ident("y", "Logger", 1), <<Level("Log")>>),
      Extend(logCtx, <<Level("Info")>>) }

EventOps ==
    { <<>>, <<Str>>, <<Ctx("ctx")>>, <<Ctx("string")>>,
      <<Ctx("string"), Ctx("ctx")>>, <<Ctx("ctx"), Str>> }

MainStmts ==
    { Assign("x", e) : e \in {ctxLogger, plainLogger, Extend(logInfo, <<Ctx("ctx")>>), logInfo} }
    \cup { ExprStmt(Extend(Extend(b, ops), <<Terminal("Msg")>>)) : b \in EventBases, ops \in EventOps }
    \cup { ExprStmt(Extend(logInfo, <<Terminal(m)>>)) : m \in {"Msgf", "MsgFunc", "Send"} }
    \cup { ExprStmt(Extend(logInfo, <<Ctx("nil"), Terminal("Send")>>)),
           ExprStmt(Extend(logInfo, <<Ctx("CustomCtxPtr"), Terminal("Msgf")>>)),
           ExprStmt(Extend(logInfo, <<Str>>)),
           ExprStmt(Expr(Ident("w", "App", 1), <<Terminal("Msg")>>)),
           ExprStmt(Expr([kind |-> "call", name |-> "getLogger", type |-> "Logger"],
                         <<Level("Info"), Terminal("Msg")>>)) }
    \cup { Stmt("expr", <<>>, <<Extend(logInfo, <<Terminal("Msg")>>)>>, a, t, 0) :
             a \in {<<>>, cmtNolint, cmtOther}, t \in {<<>>, cmtNolintSpaced} }

Next ==
    \/ NextStmt(MainStmts, MaxStmts)
    \/ VisitAssignStmt
    \/ VisitCallExpr

Spec == Init /\ [][Next]_vars

-----------------------------------------------------------------------------
(* SpecChain: one statement holding a chain of up to MaxOps field and Ctx
   calls between the level method and the terminal call *)

MaxOps == 3
MaxChainStmts == 1

ChainOps == SeqsUpTo({Str, Ctx("ctx"), Ctx("string")}, MaxOps)

ChainStmts ==
    { ExprStmt(Extend(Extend(logInfo, ops), <<Terminal("Msg")>>)) : ops \in ChainOps }
    \cup { Assign("e", Extend(logInfo, ops)) : ops \in ChainOps }
    \cup { ExprStmt(Extend(Expr(Ident("e", "Event", 1), ops), <<Terminal("Send")>>)) :
             ops \in SeqsUpTo({Str, Ctx("string")}, 1) }

NextChain ==
    \/ NextStmt(ChainStmts, MaxChainStmts)
    \/ VisitAssignStmt
    \/ VisitCallExpr

SpecChain == Init /\ [][NextChain]_vars

-----------------------------------------------------------------------------
(* SpecTerminal: up to four statements, each one of the four terminal methods
   on a chain with or without Ctx, or an assignment *)

MaxTermStmts == 4

TermStmts ==
    { ExprStmt(Extend(Extend(logInfo, ops), <<Terminal(m)>>)) :
        ops \in {<<>>, <<Ctx("ctx")>>}, m \in terminalMethods }
    \cup { Assign("x", ctxLogger),
           ExprStmt(Expr(Ident("x", "Logger", 1), <<Level("Info"), Terminal("Msg")>>)) }

NextTerminal ==
    \/ NextStmt(TermStmts, MaxTermStmts)
    \/ VisitAssignStmt
    \/ VisitCallExpr

SpecTerminal == Init /\ [][NextTerminal]_vars

-----------------------------------------------------------------------------
(* SpecVars: Event values built step by step in the local variables e1, e2, e3 *)

MaxVarStmts == 4

EventVar(n) == Expr(Ident(n, "Event", 1), <<>>)

VarStmts ==
    { Assign("e1", logInfo),
      Assign("e1", Extend(logInfo, <<Ctx("ctx")>>)),
      Assign("e2", Extend(EventVar("e1"), <<Str>>)),
      Assign("e2", Extend(EventVar("e1"), <<Ctx("string")>>)),
      Assign("e3", Extend(EventVar("e2"), <<Ctx("ctx")>>)),
      ExprStmt(Extend(EventVar("e1"), <<Ctx("ctx")>>)),
      ExprStmt(Extend(EventVar("e1"), <<Terminal("Msg")>>)),
      ExprStmt(Extend(EventVar("e2"), <<Terminal("Msg")>>)),
      ExprStmt(Extend(EventVar("e3"), <<Terminal("Msg")>>)),
      ExprStmt(Extend(EventVar("e2"), <<Str, Terminal("Send")>>)) }

NextVars ==
    \/ NextStmt(VarStmts, MaxVarStmts)
    \/ VisitAssignStmt
    \/ VisitCallExpr

SpecVars == Init /\ [][NextVars]_vars

-----------------------------------------------------------------------------
(* SpecLoggers: loggers held in local variables, in a struct field, returned
   by a function and declared at package level.  Object 1 of name g is the
   package-level variable, object 2 a local variable of the same name. *)

MaxLogStmts == 3

zerologNewCtxLogger ==
    Expr(Pkg("zerolog"), <<Call("New", <<"writer">>, "Logger"), With, WithCtx("ctx"), Logger>>)

LoggerVar(n, o) == Expr(Ident(n, "Logger", o), <<>>)

\* appWithCtx := &App{logger: zerolog.New(os.Stdout).With().Ctx(ctx).Logger()}
appLiteral ==
    Expr([kind |-> "lit", name |-> "App", type |-> "App", inner |-> <<zerologNewCtxLogger>>], <<>>)

\* appWithCtx.logger
appLogger == Expr([kind |-> "selector", name |-> "logger", type |-> "Logger"], <<>>)

\* getLoggerWithContext(ctx)
getLoggerWithContext == Expr([kind |-> "call", name |-> "getLoggerWithContext", type |-> "Logger"], <<>>)

LoggerStmts ==
    { Assign("l", e) :
        e \in {ctxLogger, plainLogger, zerologNewCtxLogger,
               Expr(Pkg("log"), <<With, WithCtx("ctx"), WithStr, Logger>>)} }
    \cup { Assign("appWithCtx", appLiteral),
           Stmt("assign", <<Target("g", 2)>>, <<ctxLogger>>, <<>>, <<>>, 0),
           Stmt("decl", <<Target("g", 1)>>, <<zerologNewCtxLogger>>, <<>>, <<>>, 0) }
    \cup { ExprStmt(Extend(LoggerVar("l", 1), <<Level(m), Terminal("Msg")>>)) : m \in logLevelMethods }
    \cup { ExprStmt(Extend(LoggerVar("l", 1), <<Level("Error"), Str, Str, Terminal("Msg")>>)),
           ExprStmt(Extend(LoggerVar("l", 1), <<Level("Debug"), Str, Terminal("Send")>>)),
           ExprStmt(Extend(LoggerVar("g", 1), <<Level("Info"), Terminal("Msg")>>)),
           ExprStmt(Extend(appLogger, <<Level("Info"), Terminal("Msg")>>)),
           ExprStmt(Extend(getLoggerWithContext, <<Level("Info"), Terminal("Msg")>>)) }

NextLoggers ==
    \/ NextStmt(LoggerStmts, MaxLogStmts)
    \/ VisitAssignStmt
    \/ VisitCallExpr

SpecLoggers == Init /\ [][NextLoggers]_vars

-----------------------------------------------------------------------------
(* SpecNoLint: isNoLintComment called directly, as the helper test does, on
   comment texts put together from a comment marker, leading white space, a
   directive word, a separator and a comma-separated list of padded tokens *)

MaxTokens == 2

strOther == <<"o","t","h","e","r">>
strBlockOpen == <<"/","*">>
strBlockClose == <<"*","/">>

LinterNames == {strZerologctx, strOther}

CommentMarkers == {strSlashes, strBlockOpen}
LeadingSpace == {<<>>, <<" ">>, <<"\t"," ">>}
DirectiveWords == {strNolint, <<"N","O","L","I","N","T">>, <<"n","o","l","i","n","t","x">>, <<"l","i","n","t">>}
Separators == {strColon, <<>>, <<" ",":">>}
TokenNames == {strZerologctx, strOther, <<"Z","e","r","o","l","o","g","c","t","x">>,
               <<"z","e","r","o","l","o","g","c","t","x","x">>}
\* a list item: a token with white space around it
ListItems == [name : TokenNames, pad : {<<>>, <<" ">>}]

CommentParts ==
    [marker : CommentMarkers, lead : LeadingSpace, word : DirectiveWords,
     sep : Separators, items : SeqsUpTo(ListItems, MaxTokens)]

RECURSIVE JoinItems(_)
JoinItems(items) ==
    IF items = <<>> THEN <<>>
    ELSE items[1].pad \o items[1].name \o items[1].pad
         \o (IF Len(items) > 1 THEN <<",">> ELSE <<>>) \o JoinItems(Tail(items))

\* comment.Text of the comment written from the parts
CommentText(c) ==
    c.marker \o c.lead \o c.word \o c.sep \o JoinItems(c.items)
    \o (IF c.marker = strBlockOpen THEN strBlockClose ELSE <<>>)

\* a direct call isNoLintComment(commentText, linterName); the function keeps
\* no state, so one call per behaviour covers every sequence of calls
CallIsNoLintComment ==
    \E c \in CommentParts, r \in LinterNames :
        /\ helperCall = <<>>
        /\ helperCall' = [fn |-> "isNoLintComment", parts |-> c, commentText |-> CommentText(c),
                          linterName |-> r]
        /\ helperResult' = isNoLintComment(CommentText(c), r)
        /\ UNCHANGED <<prog, comments, pending, loggersWithContext, eventsWithContext,
                       ctxChainCache, diags, returned>>

NextNoLint == CallIsNoLintComment

SpecNoLint == Init /\ [][NextNoLint]_vars

-----------------------------------------------------------------------------
(* SpecSuppress: terminal calls without context, written on one line or over
   two lines, with comments on the line before, two lines before, at the end
   of the first line and at the end of the last line, in one or several files *)

MaxSupStmts == 2

logInfoMsg == Extend(logInfo, <<Terminal("Msg")>>)

\* shapes of a statement: on one line, over two lines, over two lines with a
\* nolint comment at the end of the second line
StmtShapes == {[cont |-> 0, mid |-> <<>>], [cont |-> 1, mid |-> <<>>], [cont |-> 1, mid |-> cmtNolint]}

Shaped(s, shape, newfile) ==
    [s EXCEPT !.cont = shape.cont, !.mid = shape.mid, !.newfile = newfile]

SuppressStmts ==
    { Shaped(Stmt("expr", <<>>, <<logInfoMsg>>, a, t, g), sh, FALSE) :
        a \in {<<>>, cmtNolint, cmtOther}, t \in {<<>>, cmtNolintSpaced},
        g \in {0, 1}, sh \in StmtShapes }
    \cup { Shaped(Stmt("expr", <<>>, <<logInfoMsg>>, a, t, 0), [cont |-> 0, mid |-> <<>>], TRUE) :
             a \in {<<>>, cmtNolint}, t \in {<<>>, cmtNolintSpaced} }
    \cup { Stmt("expr", <<>>, <<Extend(logInfo, <<Ctx("ctx"), Terminal("Msg")>>)>>, <<>>, cmtNolint, 0),
           Stmt("assign", <<Target("x", 1)>>, <<ctxLogger>>, <<>>, cmtNolint, 0) }

NextSuppress ==
    \/ NextStmt(SuppressStmts, MaxSupStmts)
    \/ VisitAssignStmt
    \/ VisitCallExpr

SpecSuppress == Init /\ [][NextSuppress]_vars

-----------------------------------------------------------------------------
(* SpecTypes: Ctx called with arguments of every kind of type: the standard
   context, types that embed it, types that have some or all of its methods
   on the value or only on the pointer, and types that merely carry the name
   Context *)

MaxTypeStmts == 2

CtxArgTypes ==
    { "ctx", "string", "nil", "none", "CustomCtx", "CustomCtxPtr",
      "FooContext", "DbContext", "CustomContext", "AppContext",
      "PartialCtx", "PartialCtxPtr", "GinContext", "GinContextPtr",
      "Canceler", "CancelerPtr" }

TypeStmts ==
    { ExprStmt(Extend(logInfo, <<Ctx(t), Terminal("Msg")>>)) : t \in CtxArgTypes }
    \cup { Assign("e", Extend(logInfo, <<Ctx(t)>>)) : t \in CtxArgTypes }
    \cup { ExprStmt(Extend(EventVar("e"), <<Terminal("Send")>>)) }

NextTypes ==
    \/ NextStmt(TypeStmts, MaxTypeStmts)
    \/ VisitAssignStmt
    \/ VisitCallExpr

SpecTypes == Init /\ [][NextTypes]_vars

-----------------------------------------------------------------------------
(* SpecReceivers: Ctx(ctx) called on the log package, on a logger value and
   on the zerolog.Context builder, next to Ctx(ctx) called on an Event *)

MaxRecvStmts == 3

\* l.Ctx(ctx): a Ctx method of a logger value that returns a logger
loggerCtx == Expr(Ident("l", "Logger", 1), <<Call("Ctx", <<"ctx">>, "Logger")>>)

ReceiverStmts ==
    { ExprStmt(Extend(logCtx, <<Level("Info")>> \o ops \o <<Terminal("Msg")>>)) :
        ops \in {<<>>, <<Str>>, <<Ctx("ctx")>>, <<Ctx("string")>>} }
    \cup { ExprStmt(Extend(loggerCtx, <<Level("Info"), Terminal("Msg")>>)),
           ExprStmt(Extend(ctxLogger, <<Level("Info"), Terminal("Msg")>>)),
           ExprStmt(Extend(logInfo, <<Ctx("ctx"), Terminal("Msg")>>)),
           ExprStmt(Extend(LoggerVar("l", 1), <<Level("Info"), Terminal("Msg")>>)),
           ExprStmt(Extend(EventVar("e"), <<Terminal("Send")>>)),
           Assign("l", ctxLogger),
           Assign("l", logCtx),
           Assign("e", Extend(logCtx, <<Level("Info")>>)),
           Assign("e", Extend(logCtx, <<Level("Info"), Ctx("ctx")>>)) }

NextReceivers ==
    \/ NextStmt(ReceiverStmts, MaxRecvStmts)
    \/ VisitAssignStmt
    \/ VisitCallExpr

SpecReceivers == Init /\ [][NextReceivers]_vars

-----------------------------------------------------------------------------
(* SpecScopes: two variables named l and two named e.  Object 1 and object 2
   of a name are different variables: declared in different functions, in
   nested scopes, or (statements marked newfile) in different files. *)

MaxScopeStmts == 3

\* zerolog.New(w)
zerologNew == Expr(Pkg("zerolog"), <<Call("New", <<"writer">>, "Logger")>>)

AssignTo(n, o, e) == Stmt("assign", <<Target(n, o)>>, <<e>>, <<>>, <<>>, 0)

InNewFile(s) == [s EXCEPT !.newfile = TRUE]

ScopeStmts ==
    { AssignTo("l", o, e) : o \in {1, 2}, e \in {ctxLogger, zerologNew} }
    \cup { ExprStmt(Extend(LoggerVar("l", o), <<Level("Info"), Terminal("Msg")>>)) : o \in {1, 2} }
    \cup { AssignTo("e", o, e) : o \in {1, 2}, e \in {Extend(logInfo, <<Ctx("ctx")>>), logInfo} }
    \cup { ExprStmt(Extend(Expr(Ident("e", "Event", o), <<>>), <<Terminal("Msg")>>)) : o \in {1, 2} }
    \cup { InNewFile(ExprStmt(Extend(LoggerVar("l", 2), <<Level("Info"), Terminal("Msg")>>))),
           InNewFile(ExprStmt(Extend(Expr(Ident("e", "Event", 2), <<>>), <<Terminal("Msg")>>))) }

NextScopes ==
    \/ NextStmt(ScopeStmts, MaxScopeStmts)
    \/ VisitAssignStmt
    \/ VisitCallExpr

SpecScopes == Init /\ [][NextScopes]_vars

-----------------------------------------------------------------------------
(* SpecAssign: assignments with several targets (one source per target, or
   one call that returns several values), assignments through a field, and
   Event variables made from logger variables *)

MaxAssignStmts == 3

\* newLoggers(): a call that returns two loggers
newLoggers == Expr([kind |-> "call", name |-> "newLoggers", type |-> "tuple"], <<>>)

\* s.logger as the target of an assignment
fieldTarget == [kind |-> "selector", name |-> "logger", obj |-> 0]

AssignMany(targets, sources) == Stmt("assign", targets, sources, <<>>, <<>>, 0)

AssignStmts ==
    { AssignMany(<<Target("a", 1), Target("b", 1)>>, <<ctxLogger, zerologNew>>),
      AssignMany(<<Target("a", 1), Target("b", 1)>>, <<zerologNew, ctxLogger>>),
      AssignMany(<<Target("a", 1), Target("b", 1)>>, <<zerologNew, zerologNew>>),
      AssignMany(<<Target("a", 1), Target("b", 1)>>, <<newLoggers>>),
      AssignMany(<<Target("e", 1), Target("b", 1)>>, <<Extend(logInfo, <<Ctx("ctx")>>), zerologNew>>),
      AssignMany(<<fieldTarget, Target("b", 1)>>, <<ctxLogger, ctxLogger>>),
      Assign("a", ctxLogger),
      Assign("e", Extend(logInfo, <<Ctx("ctx")>>)),
      Assign("e", Extend(LoggerVar("a", 1), <<Level("Info")>>)),
      Assign("e", Extend(LoggerVar("a", 1), <<Level("Info"), Str>>)),
      Assign("f", Extend(EventVar("e"), <<Str>>)),
      ExprStmt(Extend(LoggerVar("a", 1), <<Level("Info"), Terminal("Msg")>>)),
      ExprStmt(Extend(LoggerVar("b", 1), <<Level("Error"), Terminal("Msg")>>)),
      ExprStmt(Extend(EventVar("e"), <<Terminal("Msg")>>)),
      ExprStmt(Extend(EventVar("f"), <<Terminal("Send")>>)) }

NextAssign ==
    \/ NextStmt(AssignStmts, MaxAssignStmts)
    \/ VisitAssignStmt
    \/ VisitCallExpr

SpecAssign == Init /\ [][NextAssign]_vars

-----------------------------------------------------------------------------
(* SpecNames: Ctx called with arguments whose type strings do or do not
   contain context.Context: the standard type, a pointer to it, a type of a
   vendored package, an interface literal, and look-alike names *)

MaxNameStmts == 2

NameArgTypes ==
    { "ctx", "StdContextPtr", "VendoredContext", "IfaceContext", "AppContext",
      "FooContext", "BareContext", "Contextual", "string", "nil", "none" }

NameStmts ==
    { ExprStmt(Extend(logInfo, <<Ctx(t), Terminal("Msg")>>)) : t \in NameArgTypes }
    \cup { ExprStmt(Extend(logInfo, <<Str, Ctx(t), Terminal("Send")>>)) : t \in NameArgTypes }
    \cup { Assign("e", Extend(logInfo, <<Ctx(t)>>)) : t \in NameArgTypes }
    \cup { ExprStmt(Extend(EventVar("e"), <<Terminal("Msg")>>)) }

NextNames ==
    \/ NextStmt(NameStmts, MaxNameStmts)
    \/ VisitAssignStmt
    \/ VisitCallExpr

SpecNames == Init /\ [][NextNames]_vars

-----------------------------------------------------------------------------
(* SpecUntyped: expressions for which go/types recorded no type (type "none"):
   receivers of terminal calls, receivers of Ctx, arguments of Ctx and
   sources of assignments; run returns when the input ends *)

MaxUntypedStmts == 2

\* an identifier without type information
untyped == Expr(Ident("u", "none", 1), <<>>)

UntypedStmts ==
    { ExprStmt(Extend(untyped, <<Terminal("Msg")>>)),
      ExprStmt(Extend(untyped, <<Call("Info", <<>>, "none"), Terminal("Msg")>>)),
      ExprStmt(Extend(untyped, <<Call("Info", <<>>, "none"), Call("Ctx", <<"ctx">>, "none"), Terminal("Send")>>)),
      ExprStmt(Extend(untyped, <<Call("Ctx", <<"ctx">>, "Event"), Terminal("Msg")>>)),
      ExprStmt(Extend(untyped, <<Call("Ctx", <<"ctx">>, "Event"), Str, Terminal("Msg")>>)),
      ExprStmt(Extend(logInfo, <<Ctx("none"), Terminal("Msg")>>)),
      ExprStmt(Extend(logInfo, <<Ctx("none"), Str, Terminal("Msgf")>>)),
      ExprStmt(Extend(logInfo, <<Ctx("ctx"), Terminal("Msg")>>)),
      ExprStmt(Extend(logInfo, <<Terminal("Msg")>>)),
      ExprStmt(Extend(EventVar("e"), <<Terminal("Msg")>>)),
      Assign("e", untyped),
      Assign("e", Extend(untyped, <<Call("Ctx", <<"ctx">>, "Event")>>)),
      Assign("e", Extend(logInfo, <<Ctx("none")>>)),
      Assign("e", Extend(logInfo, <<Ctx("ctx")>>)) }

NextUntyped ==
    \/ NextStmt(UntypedStmts, MaxUntypedStmts)
    \/ VisitAssignStmt
    \/ VisitCallExpr
    \/ Return

SpecUntyped == Init /\ [][NextUntyped]_vars

-----------------------------------------------------------------------------
(* SpecCache: hasCtxInChainCached called by run for the receiver of every
   terminal call and, once per behaviour, called directly for any receiver
   sub-expression of a statement read so far, before or after run reaches
   that node, so that stored results are read back *)

MaxCacheStmts == 2

CacheStmts ==
    { ExprStmt(Extend(logInfo, <<Terminal("Msg")>>)),
      ExprStmt(Extend(logInfo, <<Ctx("ctx"), Terminal("Msg")>>)),
      ExprStmt(Extend(logInfo, <<Ctx("string"), Str, Terminal("Send")>>)),
      ExprStmt(Extend(logInfo, <<Str, Ctx("ctx"), Str, Terminal("Msg")>>)),
      ExprStmt(Extend(EventVar("e"), <<Terminal("Msg")>>)),
      Assign("e", Extend(logInfo, <<Ctx("ctx")>>)),
      Assign("e", logInfo) }

\* the expression node with the given key
ExprAt(key) ==
    LET top == prog[key.stmt].rhs[key.slot[1]]
        e == IF key.slot[2] = 0 THEN top ELSE top.root.inner[key.slot[2]]
    IN  [root |-> e.root, calls |-> SubSeq(e.calls, 1, key.depth)]

\* a direct call hasCtxInChainCached(pass, expr, cache)
CallHasCtxInChainCached ==
    /\ helperCall = <<>>
    /\ \E i \in 1..Len(prog) : \E d \in 0..Len(prog[i].rhs[1].calls) :
          LET key == [stmt |-> i, slot |-> <<1, 0>>, depth |-> d]
          IN  /\ helperCall' = [fn |-> "hasCtxInChainCached", key |-> key]
              /\ helperResult' = CachedResult(ctxChainCache, key, ExprAt(key))
              /\ ctxChainCache' = CacheAfter(ctxChainCache, key, ExprAt(key))
    /\ UNCHANGED <<prog, comments, pending, loggersWithContext, eventsWithContext, diags, returned>>

NextCache ==
    \/ NextStmt(CacheStmts, MaxCacheStmts)
    \/ VisitAssignStmt
    \/ VisitCallExpr
    \/ CallHasCtxInChainCached

SpecCache == Init /\ [][NextCache]_vars

-----------------------------------------------------------------------------
(* SpecClassify: isContextType called directly, any number of times and at
   any point of the traversal, next to the calls run makes through
   hasCtxInChain *)

MaxClassStmts == 2

ClassTypes == {"ctx", "string", "CustomCtxPtr", "PartialCtx", "AppContext", "none"}

ClassStmts ==
    { ExprStmt(Extend(logInfo, <<Ctx(t), Terminal("Msg")>>)) : t \in ClassTypes }
    \cup { Assign("e", Extend(logInfo, <<Ctx(t)>>)) : t \in ClassTypes }
    \cup { ExprStmt(Extend(EventVar("e"), <<Terminal("Msg")>>)) }

\* a direct call isContextType(pass, typ)
CallIsContextType ==
    /\ \E t \in ClassTypes :
          /\ helperCall' = [fn |-> "isContextType", typ |-> t]
          /\ helperResult' = isContextType(t)
    /\ UNCHANGED <<prog, comments, pending, loggersWithContext, eventsWithContext,
                   ctxChainCache, diags, returned>>

NextClassify ==
    \/ NextStmt(ClassStmts, MaxClassStmts)
    \/ VisitAssignStmt
    \/ VisitCallExpr
    \/ CallIsContextType

SpecClassify == Init /\ [][NextClassify]_vars

-----------------------------------------------------------------------------
(* SpecTermination: the pass as a sequential program that keeps taking its
   next step, and the four chain walks taken one iteration (or one recursive
   call) at a time *)

MaxWalkStmts == 2

WalkFns == {"hasCtxInChain", "hasCtxInContextChain",
            "isEventFromLoggerWithContext", "isEventFromVariableWithContext"}

WalkStmts ==
    { ExprStmt(Extend(logInfo, <<Str, Ctx("ctx"), Str, Terminal("Msg")>>)),
      ExprStmt(Extend(LoggerVar("l", 1), <<Level("Info"), Str, Terminal("Msg")>>)),
      ExprStmt(Extend(EventVar("e"), <<Str, Terminal("Send")>>)),
      ExprStmt(Extend(getLoggerWithContext, <<Level("Info"), Terminal("Msg")>>)),
      Assign("l", ctxLogger),
      Assign("e", Extend(logInfo, <<Ctx("ctx")>>)) }

\* a walk that stays on the same expression instead of moving to sel.X
WalkNextStay(e) == e

\* the expression a walk looks at next: sel.X of the selector call e
WalkNext(e) == Receiver(e)

\* one iteration of a walk at expression e: "true" and "false" are returned
\* values, "next" is the move to the receiver
WalkVerdict(fn, e, loggers, events) ==
    IF fn = "isEventFromVariableWithContext" /\ IsIdent(e)
    THEN (IF e.root.name \in events THEN "true" ELSE "false")
    ELSE IF ~IsSelectorCall(e) THEN "false"
    ELSE IF fn = "hasCtxInChain"
    THEN (IF /\ SelName(e) = "Ctx" /\ Len(CallArgs(e)) > 0 /\ CallArgs(e)[1] # "none"
             /\ isContextType(CallArgs(e)[1]) /\ IsEventType(TypeOf(Receiver(e)))
          THEN "true" ELSE "next")
    ELSE IF fn = "hasCtxInContextChain"
    THEN (IF /\ SelName(e) = "Ctx" /\ Len(CallArgs(e)) > 0 /\ CallArgs(e)[1] # "none"
             /\ isContextType(CallArgs(e)[1])
          THEN "true" ELSE "next")
    ELSE IF fn = "isEventFromLoggerWithContext"
    THEN (IF /\ SelName(e) \in logLevelMethods /\ IsIdent(Receiver(e))
             /\ Receiver(e).root.name \in loggers
          THEN "true" ELSE "next")
    ELSE (IF IsIdent(Receiver(e)) /\ Receiver(e).root.name \in events
          THEN "true" ELSE "next")

\* a walk is called on the right-hand expression of a statement read so far,
\* with the tracking maps of that moment as its arguments
CallWalk ==
    /\ helperCall = <<>>
    /\ \E fn \in WalkFns : \E i \in 1..Len(prog) :
          helperCall' = [fn |-> fn, start |-> prog[i].rhs[1], at |-> prog[i].rhs[1],
                         loggers |-> loggersWithContext, events |-> eventsWithContext,
                         done |-> FALSE]
    /\ helperResult' = FALSE
    /\ UNCHANGED <<prog, comments, pending, loggersWithContext, eventsWithContext,
                   ctxChainCache, diags, returned>>

\* one iteration of the walk in progress
WalkStep ==
    /\ helperCall # <<>>
    /\ ~helperCall.done
    /\ LET v == WalkVerdict(helperCall.fn, helperCall.at, helperCall.loggers, helperCall.events)
       IN  IF v = "next"
           THEN /\ helperCall' = [helperCall EXCEPT !.at = WalkNext(helperCall.at)]
                /\ UNCHANGED helperResult
           ELSE /\ helperCall' = [helperCall EXCEPT !.done = TRUE]
                /\ helperResult' = (v = "true")
    /\ UNCHANGED <<prog, comments, pending, loggersWithContext, eventsWithContext,
                   ctxChainCache, diags, returned>>

\* the steps of run itself
RunStep ==
    \/ NextStmt(WalkStmts, MaxWalkStmts)
    \/ VisitAssignStmt
    \/ VisitCallExpr
    \/ Return

NextTermination ==
    \/ RunStep
    \/ CallWalk
    \/ WalkStep

SpecTermination ==
    Init /\ [][NextTermination]_vars /\ WF_vars(RunStep) /\ WF_vars(WalkStep)

-----------------------------------------------------------------------------
(* SpecDecl: loggers and events introduced by a var declaration inside a
   function (a GenDecl with a ValueSpec, not an AssignStmt), next to
   assignments to variables of the same name declared in other functions *)

MaxDeclStmts == 3

Decl(n, o, e) == Stmt("decl", <<Target(n, o)>>, <<e>>, <<>>, <<>>, 0)

DeclStmts ==
    { Decl("l", 1, ctxLogger), Decl("l", 1, zerologNew),
      Decl("e", 1, Extend(logInfo, <<Ctx("ctx")>>)), Decl("e", 1, logInfo),
      AssignTo("l", 2, ctxLogger),
      AssignTo("e", 2, Extend(logInfo, <<Ctx("ctx")>>)),
      ExprStmt(Extend(LoggerVar("l", 1), <<Level("Info"), Terminal("Msg")>>)),
      ExprStmt(Extend(LoggerVar("l", 1), <<Level("Error"), Str, Terminal("Send")>>)),
      ExprStmt(Extend(LoggerVar("l", 1), <<Level("Info"), Ctx("ctx"), Terminal("Msg")>>)),
      ExprStmt(Extend(Expr(Ident("e", "Event", 1), <<>>), <<Terminal("Msg")>>)),
      ExprStmt(Extend(Expr(Ident("e", "Event", 2), <<>>), <<Terminal("Msg")>>)) }

NextDecl ==
    \/ NextStmt(DeclStmts, MaxDeclStmts)
    \/ VisitAssignStmt
    \/ VisitCallExpr

SpecDecl == Init /\ [][NextDecl]_vars

-----------------------------------------------------------------------------
(* SpecInvalidCtx: chains that mix Ctx calls that fail validation (an
   argument that is no context, no argument at all, a receiver that is not an
   Event) with valid ones, in every order *)

MaxInvOps == 3
MaxInvStmts == 1

\* .Ctx() without arguments
CtxNoArgs == Call("Ctx", <<>>, "Event")

\* log.With().Ctx(ctx).Logger().Info(): Ctx called on a zerolog.Context
ctxLoggerInfo == Extend(ctxLogger, <<Level("Info")>>)

InvalidCtxOps == {Ctx("ctx"), Ctx("string"), CtxNoArgs}

\* after With the receiver of the next call has type zerolog.Context
InvalidCtxStmts ==
    { ExprStmt(Extend(logInfo, ops \o <<Terminal("Msg")>>)) :
        ops \in SeqsUpTo(InvalidCtxOps, MaxInvOps) }
    \cup { ExprStmt(Extend(b, ops \o <<Terminal("Send")>>)) :
             b \in {logInfo, ctxLoggerInfo},
             ops \in { <<With, Ctx("ctx")>>, <<With, Ctx("string")>>,
                       <<Ctx("ctx"), With, Ctx("ctx")>>, <<Ctx("ctx"), With, Ctx("string")>>,
                       <<With, Ctx("ctx"), Ctx("ctx")>> } }
    \cup { ExprStmt(Extend(ctxLoggerInfo, ops \o <<Terminal("Msg")>>)) :
             ops \in {<<>>, <<Ctx("ctx")>>, <<CtxNoArgs>>} }
    \cup { Assign("e", Extend(logInfo, <<CtxNoArgs, Ctx("ctx")>>)),
           Assign("e", Extend(logInfo, <<Ctx("string")>>)) }

NextInvalidCtx ==
    \/ NextStmt(InvalidCtxStmts, MaxInvStmts)
    \/ VisitAssignStmt
    \/ VisitCallExpr

SpecInvalidCtx == Init /\ [][NextInvalidCtx]_vars

-----------------------------------------------------------------------------
(* Vocabulary of the properties, stated on the syntax of the analysed program
   and not through the analyzer's own functions *)

\* statement i has been handed to the callback completely
Processed(i) == i < Len(prog) \/ (i = Len(prog) /\ pending = <<>>)

\* the indexes of the diagnostics reported at a line
DiagsAt(line) == {k \in 1..Len(diags) : diags[k].pos = line}

\* argument types that are context.Context or embed it
ContextArgTypes == {"ctx", "CustomCtxPtr", "CustomCtx"}

\* the expression made of the root and the first k calls of e
Prefix(e, k) == [root |-> e.root, calls |-> SubSeq(e.calls, 1, k)]

\* call k of e is Ctx with a context argument, made on an Event
ValidCtxAt(e, k) ==
    /\ e.calls[k].name = "Ctx"
    /\ Len(e.calls[k].args) >= 1
    /\ e.calls[k].args[1] \in ContextArgTypes
    /\ TypeOf(Prefix(e, k - 1)) = "Event"

\* call k of e is Ctx and is no valid injection
InvalidCtxAt(e, k) == e.calls[k].name = "Ctx" /\ ~ValidCtxAt(e, k)

ChainHasValidCtx(e) == \E k \in 1..Len(e.calls) : ValidCtxAt(e, k)

\* e starts with a level method called on an identifier named in loggers
FromTrackedLogger(e, loggers) ==
    /\ Len(e.calls) >= 1
    /\ e.calls[1].name \in {"Info", "Error", "Debug", "Warn", "Fatal", "Panic", "Trace", "Log"}
    /\ e.root.kind = "ident"
    /\ e.root.name \in loggers

\* e is, or is a chain of calls on, an identifier named in events
RootedAtTrackedEvent(e, events) == e.root.kind = "ident" /\ e.root.name \in events

\* a comment naming zerologctx lies on the line or on the line before it
NolintTexts == {cmtNolint, cmtNolintSpaced}
Suppressed(line) ==
    \E c \in comments : c.line \in {line - 1, line} /\ c.text \in NolintTexts

\* e is a terminal method called on an expression of type *zerolog.Event
TerminalOnEvent(e) ==
    /\ Len(e.calls) >= 1
    /\ Last(e.calls).name \in {"Msg", "Msgf", "MsgFunc", "Send"}
    /\ TypeOf(Prefix(e, Len(e.calls) - 1)) = "Event"

\* statement i is an expression statement whose expression is such a call
TerminalStmt(i) == prog[i].kind = "expr" /\ TerminalOnEvent(prog[i].rhs[1])

\* the receiver chain of the terminal call of statement i
ChainOf(i) == Prefix(prog[i].rhs[1], Len(prog[i].rhs[1].calls) - 1)

\* none of the three coverage checks applies to chain x under the given maps
Uncovered(x, loggers, events) ==
    /\ ~ChainHasValidCtx(x)
    /\ ~FromTrackedLogger(x, loggers)
    /\ ~RootedAtTrackedEvent(x, events)

-----------------------------------------------------------------------------
(* C1: for every call expression handed to the callback, a diagnostic is
   reported in that step if and only if the call is a method call whose
   receiver has type Event, the method is terminal, the receiver chain holds
   no valid Ctx injection, does not start with a level method on a tracked
   logger variable, is not rooted at a tracked event variable, and no
   nolint:zerologctx comment lies on the call's line or the line before. *)
C1_ReportIff ==
    [][ (pending # <<>> /\ Head(pending).kind = "CallExpr") =>
          LET n == Head(pending)
              e == n.expr
          IN  /\ (diags' = diags \/ (Len(diags') = Len(diags) + 1 /\ SubSeq(diags', 1, Len(diags)) = diags))
              /\ (diags' # diags) <=>
                    /\ TerminalOnEvent(e)
                    /\ Uncovered(Prefix(e, Len(e.calls) - 1), loggersWithContext, eventsWithContext)
                    /\ ~Suppressed(prog[n.stmt].line) ]_vars

\* a reported call and an unreported terminal call on a tracked variable
C1_Witness ==
    /\ Len(prog) = 2 /\ pending = <<>>
    /\ prog[1].kind = "assign" /\ loggersWithContext \cup eventsWithContext # {}
    /\ TerminalStmt(2)
    /\ ChainOf(2).root.kind = "ident"
    /\ DiagsAt(prog[2].line) = {}

(* C2: a terminal call whose receiver chain holds a Ctx call made on an Event
   with a context argument is never reported, whatever else the chain holds. *)
C2_ValidCtxNeverReported ==
    \A i \in 1..Len(prog) :
        (TerminalStmt(i) /\ ChainHasValidCtx(ChainOf(i))) => DiagsAt(prog[i].line) = {}

\* Str before and after the valid Ctx, and an invalid Ctx as well
C2_Witness ==
    /\ Len(prog) = 1 /\ pending = <<>>
    /\ TerminalStmt(1)
    /\ ChainOf(1).calls = <<Level("Info"), Str, Ctx("ctx"), Str>>
    /\ diags = <<>>

(* C3 as stated: every terminal call whose chain holds a Ctx call with an
   argument that is no context is reported (unless a nolint comment applies). *)
C3_AnyInvalidCtxReported ==
    \A i \in 1..Len(prog) :
        ( /\ Processed(i) /\ TerminalStmt(i)
          /\ \E k \in 1..Len(ChainOf(i).calls) : InvalidCtxAt(ChainOf(i), k)
          /\ ~Suppressed(prog[i].line) )
        => DiagsAt(prog[i].line) # {}

(* C3 amended: a terminal call in whose chain every Ctx call has an argument
   that is no context, which does not start with a level method on a tracked
   logger variable and is not rooted at a tracked event variable, is reported
   (unless a nolint comment applies). *)
C3_OnlyInvalidCtxReported ==
    \A i \in 1..Len(prog) :
        ( /\ Processed(i) /\ TerminalStmt(i)
          /\ \E k \in 1..Len(ChainOf(i).calls) : InvalidCtxAt(ChainOf(i), k)
          /\ ~ChainHasValidCtx(ChainOf(i))
          /\ ~FromTrackedLogger(ChainOf(i), loggersWithContext)
          /\ ~RootedAtTrackedEvent(ChainOf(i), eventsWithContext)
          /\ ~Suppressed(prog[i].line) )
        => Cardinality(DiagsAt(prog[i].line)) = 1

C3_Witness ==
    \E i \in 1..Len(prog) :
        /\ Processed(i) /\ TerminalStmt(i)
        /\ \E k \in 1..Len(ChainOf(i).calls) :
              ChainOf(i).calls[k].name = "Ctx" /\ ChainOf(i).calls[k].args = <<"nil">>
        /\ Cardinality(DiagsAt(prog[i].line)) = 1

(* C4: every terminal call site has at most one diagnostic, and a terminal
   call that is uncovered and not suppressed has exactly one. *)
C4_OnePerSite ==
    \A i \in 1..Len(prog) :
        /\ Cardinality(DiagsAt(prog[i].line)) <= 1
        /\ ( /\ Processed(i) /\ TerminalStmt(i)
             /\ Uncovered(ChainOf(i), loggersWithContext, eventsWithContext)
             /\ ~Suppressed(prog[i].line) )
           => Cardinality(DiagsAt(prog[i].line)) = 1

\* log.Info().Msg("x") twice: one diagnostic each
C4_Witness ==
    /\ Len(prog) = 2 /\ pending = <<>>
    /\ \A i \in 1..2 : prog[i].rhs[1] = Extend(logInfo, <<Terminal("Msg")>>)
                       /\ Cardinality(DiagsAt(prog[i].line)) = 1
    /\ Len(diags) = 2

(* C5: each of Msg, Msgf, MsgFunc and Send called on an uncovered Event chain
   (and not suppressed) is reported at the call's position, with a message
   that names that method and no other. *)
C5_MessageNamesMethod ==
    \A i \in 1..Len(prog) :
        /\ ( /\ Processed(i) /\ TerminalStmt(i)
             /\ Uncovered(ChainOf(i), loggersWithContext, eventsWithContext)
             /\ ~Suppressed(prog[i].line) )
           => \E k \in DiagsAt(prog[i].line) : TRUE
        /\ \A k \in DiagsAt(prog[i].line) :
             /\ TerminalStmt(i)
             /\ diags[k].msg =
                  <<"zerolog event missing .Ctx(ctx) before ", Last(prog[i].rhs[1].calls).name,
                    "() - context should be included for proper log correlation">>

\* all four methods have been reported, each under its own name
C5_Witness ==
    /\ Len(diags) = 4
    /\ \A m \in {"Msg", "Msgf", "MsgFunc", "Send"} : \E k \in 1..4 : diags[k].msg[2] = m

-----------------------------------------------------------------------------
(* Vocabulary for the variable-tracking properties *)

\* statement i is  name := e  or  name = e  with one target and one source
SingleAssign(i) ==
    /\ prog[i].kind = "assign"
    /\ Len(prog[i].lhs) = 1 /\ Len(prog[i].rhs) = 1
    /\ prog[i].lhs[1].kind = "ident"

TargetOf(i) == prog[i].lhs[1]
SourceOf(i) == prog[i].rhs[1]

\* e ends in Logger()
EndsInLogger(e) == Len(e.calls) >= 1 /\ Last(e.calls).name = "Logger"

\* e holds a Ctx call with a context argument
HasCtxWithContext(e) ==
    \E k \in 1..Len(e.calls) :
        /\ e.calls[k].name = "Ctx"
        /\ Len(e.calls[k].args) >= 1
        /\ e.calls[k].args[1] \in ContextArgTypes

HasCtxCall(e) == \E k \in 1..Len(e.calls) : e.calls[k].name = "Ctx"

\* x is  n.<level method>()  followed by any number of calls
LevelChainOn(x, n) ==
    /\ x.root.kind = "ident" /\ x.root.name = n
    /\ Len(x.calls) >= 1
    /\ x.calls[1].name \in {"Info", "Error", "Debug", "Warn", "Fatal", "Panic", "Trace", "Log"}

\* statement j is an unsuppressed, completely visited terminal call whose own
\* chain holds no valid Ctx
PlainTerminal(j) ==
    /\ Processed(j) /\ TerminalStmt(j)
    /\ ~ChainHasValidCtx(ChainOf(j))
    /\ ~Suppressed(prog[j].line)

(* C6, first half: after a single-target assignment of a logger built by a
   chain that holds Ctx(ctx) and ends in Logger(), no later terminal call on an
   event created by a level method on that variable is reported. *)
C6_TrackedLoggerCovered ==
    \A i, j \in 1..Len(prog) :
        ( /\ i < j
          /\ SingleAssign(i) /\ EndsInLogger(SourceOf(i)) /\ HasCtxWithContext(SourceOf(i))
          /\ TerminalStmt(j) /\ LevelChainOn(ChainOf(j), TargetOf(i).name) )
        => DiagsAt(prog[j].line) = {}

(* C6, second half: a logger built by With()...Logger() without Ctx is not
   tracked: the events created from the variable while it holds that logger
   (no assignment to the name in between) are reported. *)
C6_PlainLoggerReported ==
    \A i, j \in 1..Len(prog) :
        ( /\ i < j
          /\ SingleAssign(i) /\ EndsInLogger(SourceOf(i)) /\ ~HasCtxCall(SourceOf(i))
          /\ \A h \in (i + 1)..(j - 1) :
                ~(prog[h].kind = "assign" /\ \E t \in 1..Len(prog[h].lhs) : prog[h].lhs[t].name = TargetOf(i).name)
          /\ PlainTerminal(j) /\ LevelChainOn(ChainOf(j), TargetOf(i).name) )
        => DiagsAt(prog[j].line) # {}

(* C6: both halves. *)
C6_LoggerTracking == C6_TrackedLoggerCovered /\ C6_PlainLoggerReported

(* C7: after  a := <Event chain with a valid Ctx>  and  b := a.<op>(...),
   a later terminal call on b is not reported. *)
C7_RebindingCovered ==
    \A i, j, k \in 1..Len(prog) :
        ( /\ i < j /\ j < k
          /\ SingleAssign(i) /\ TypeOf(SourceOf(i)) = "Event" /\ ChainHasValidCtx(SourceOf(i))
          /\ SingleAssign(j) /\ TypeOf(SourceOf(j)) = "Event"
          /\ SourceOf(j).root.kind = "ident" /\ SourceOf(j).root.name = TargetOf(i).name
          /\ Len(SourceOf(j).calls) = 1
          /\ TerminalStmt(k)
          /\ ChainOf(k).root.kind = "ident" /\ ChainOf(k).root.name = TargetOf(j).name
          /\ ChainOf(k).calls = <<>> )
        => DiagsAt(prog[k].line) = {}

\* e1 := log.Info().Ctx(ctx); e2 := e1.Str(..); e2.Msg(..) visited, nothing reported
C7_Witness ==
    /\ Len(prog) = 3 /\ pending = <<>>
    /\ prog[1].rhs[1] = Extend(logInfo, <<Ctx("ctx")>>) /\ TargetOf(1).name = "e1"
    /\ prog[2].rhs[1] = Extend(EventVar("e1"), <<Str>>) /\ TargetOf(2).name = "e2"
    /\ prog[3].rhs[1] = Extend(EventVar("e2"), <<Terminal("Msg")>>)
    /\ eventsWithContext = {"e1", "e2"}
    /\ diags = <<>>

(* C8: after  a1 := log.Info(); a2 := a1.Str(k, v); a3 := a2.Ctx(ctx)  a terminal
   call on a3 is not reported. *)
C8_StepwiseCtxCovered ==
    \A h, i, j, k \in 1..Len(prog) :
        ( /\ h < i /\ i < j /\ j < k
          /\ SingleAssign(h) /\ SourceOf(h) = logInfo
          /\ SingleAssign(i) /\ SourceOf(i) = Extend(EventVar(TargetOf(h).name), <<Str>>)
          /\ SingleAssign(j) /\ SourceOf(j) = Extend(EventVar(TargetOf(i).name), <<Ctx("ctx")>>)
          /\ TerminalStmt(k) /\ ChainOf(k) = EventVar(TargetOf(j).name) )
        => DiagsAt(prog[k].line) = {}

C8_Witness ==
    /\ Len(prog) = 4 /\ pending = <<>>
    /\ prog[1].rhs[1] = logInfo /\ TargetOf(1).name = "e1"
    /\ prog[2].rhs[1] = Extend(EventVar("e1"), <<Str>>) /\ TargetOf(2).name = "e2"
    /\ prog[3].rhs[1] = Extend(EventVar("e2"), <<Ctx("ctx")>>) /\ TargetOf(3).name = "e3"
    /\ prog[4].rhs[1] = Extend(EventVar("e3"), <<Terminal("Msg")>>)
    /\ eventsWithContext = {"e3"}
    /\ diags = <<>>

\* the analysed input starts with  e := log.Info(); e.Ctx(ctx); e.Msg("x")
DiscardedCtxScenario ==
    /\ Len(prog) >= 3
    /\ SingleAssign(1) /\ SourceOf(1) = logInfo
    /\ prog[2].kind = "expr" /\ prog[2].rhs[1] = Extend(EventVar(TargetOf(1).name), <<Ctx("ctx")>>)
    /\ prog[3].kind = "expr"
    /\ prog[3].rhs[1] = Extend(EventVar(TargetOf(1).name), <<Terminal("Msg")>>)

(* C9: for the input  e := log.Info(); e.Ctx(ctx); e.Msg("x")  the Ctx statement
   records nothing in the tracking maps and the terminal call gets exactly one
   diagnostic. *)
C9_DiscardedCtxNotTracked ==
    DiscardedCtxScenario =>
        /\ (Len(prog) = 3 => (loggersWithContext = {} /\ eventsWithContext = {}))
        /\ (Processed(3) => Cardinality(DiagsAt(prog[3].line)) = 1)

C9_Witness ==
    /\ DiscardedCtxScenario
    /\ Len(prog) = 3 /\ pending = <<>>
    /\ eventsWithContext = {}
    /\ Len(diags) = 1 /\ diags[1].pos = prog[3].line

(* C10: a logger with context reached through a struct field, a function
   return value or a package-level variable declaration is never tracked: a
   terminal call on an event created from it, without Ctx in its own chain,
   is reported.  For the package-level variable the declaration is the
   variable's only source: no assignment statement assigns to that object. *)
C10_UntrackedSourcesReported ==
    \A j \in 1..Len(prog) :
        /\ (PlainTerminal(j) /\ ChainOf(j).root.kind \in {"selector", "call"})
           => DiagsAt(prog[j].line) # {}
        /\ \A i \in 1..Len(prog) :
             ( /\ prog[i].kind = "decl"
               /\ EndsInLogger(SourceOf(i)) /\ HasCtxWithContext(SourceOf(i))
               /\ PlainTerminal(j)
               /\ LevelChainOn(ChainOf(j), TargetOf(i).name)
               /\ ChainOf(j).root.obj = TargetOf(i).obj
               /\ \A h \in 1..Len(prog) :
                     ~(prog[h].kind = "assign" /\ \E t \in 1..Len(prog[h].lhs) :
                          prog[h].lhs[t].name = TargetOf(i).name /\ prog[h].lhs[t].obj = TargetOf(i).obj) )
             => DiagsAt(prog[j].line) # {}

-----------------------------------------------------------------------------
\* the last helper call was isNoLintComment
NoLintCalled == helperCall # <<>> /\ helperCall.fn = "isNoLintComment"

(* C11: isNoLintComment(s, r) is true if and only if s is a line comment
   whose text, after leading white space, is the word nolint directly
   followed by a colon, and one of the comma-separated items after the colon
   is, apart from surrounding white space, exactly r (case-sensitive).  A
   comment without the colon, with an empty list, or with another word
   yields false. *)
C11_NoLintCommentIff ==
    NoLintCalled =>
        LET c == helperCall.parts
        IN  helperResult = TRUE <=>
               /\ c.marker = <<"/","/">>
               /\ c.word = <<"n","o","l","i","n","t">>
               /\ c.sep = <<":">>
               /\ \E i \in 1..Len(c.items) : c.items[i].name = helperCall.linterName

\* "// nolint: ..." with two padded items, the second one the linter asked for
C11_Witness ==
    /\ NoLintCalled
    /\ helperResult = TRUE
    /\ helperCall.parts.lead # <<>>
    /\ Len(helperCall.parts.items) = 2
    /\ helperCall.parts.items[1].name # helperCall.linterName
    /\ helperCall.parts.items[2].name = helperCall.linterName
    /\ helperCall.parts.items[2].pad # <<>>

-----------------------------------------------------------------------------
\* the diagnostics reported for statement i
DiagsOf(i) == {k \in 1..Len(diags) : diags[k].file = prog[i].file /\ diags[k].pos = prog[i].line}

\* a comment naming zerologctx lies in the file of statement i on the line
\* where the statement starts or on the line before
NolintNear(i) ==
    \E c \in comments :
        /\ c.file = prog[i].file
        /\ c.line \in {prog[i].line - 1, prog[i].line}
        /\ c.text \in NolintTexts

\* statement i is a terminal call that no Ctx call and no tracked variable covers
UncoveredTerminal(i) ==
    /\ TerminalStmt(i)
    /\ ~ChainHasValidCtx(ChainOf(i))
    /\ ChainOf(i).root.kind = "ident" => ChainOf(i).root.name \notin (loggersWithContext \cup eventsWithContext)

(* C12: an uncovered terminal call is not reported exactly when a comment
   that names zerologctx in a nolint list lies, in the same file, on the
   line where the call chain starts or on the line immediately before it.
   A matching comment two lines above, on a later line of the chain, on a
   later line or in another file, and a comment naming only other linters,
   leave the call reported. *)
C12_SuppressedIffNear ==
    \A i \in 1..Len(prog) :
        (Processed(i) /\ UncoveredTerminal(i)) => (DiagsOf(i) = {} <=> NolintNear(i))

\* the first call is suppressed by the comment on the line before it; the
\* second, written over two lines with a blank line before it, has nolint comments two
\* lines above its start and at the end of its second line, and is reported
C12_Witness ==
    /\ Len(prog) = 2 /\ pending = <<>>
    /\ UncoveredTerminal(1) /\ UncoveredTerminal(2)
    /\ prog[1].above = cmtNolint /\ prog[1].trail = <<>> /\ DiagsOf(1) = {}
    /\ prog[2].file = prog[1].file
    /\ prog[2].above = cmtNolint /\ prog[2].gap = 1 /\ prog[2].trail = <<>>
    /\ prog[2].mid = cmtNolint
    /\ DiagsOf(2) # {}

\* a call in a second file, reported although a nolint comment lies on the
\* same line number of the first file
C12_WitnessOtherFile ==
    /\ Len(prog) = 2 /\ pending = <<>>
    /\ UncoveredTerminal(2)
    /\ prog[2].file # prog[1].file /\ prog[2].line = prog[1].line
    /\ prog[1].trail = cmtNolintSpaced
    /\ DiagsOf(2) # {}

-----------------------------------------------------------------------------
\* the type string of t ends in the simple name Context
NameEndsInContext(t) ==
    LET str == TypeString(t)
    IN  Len(str) >= 7 /\ SubSeq(str, Len(str) - 6, Len(str)) = <<"C","o","n","t","e","x","t">>

\* t is context.Context itself
IsStdContext(t) == TypeString(t) = <<"c","o","n","t","e","x","t",".","C","o","n","t","e","x","t">>

AllFour == {"Deadline", "Done", "Err", "Value"}

\* t, or the type t points to, has the four methods of context.Context
HasAllFour(t) == AllFour \subseteq MethodSet(t) \/ (IsPointer(t) /\ AllFour \subseteq MethodSet(Elem(t)))

\* statement i is log.Info().Ctx(t).<terminal>() for an argument of type t
CtxThenTerminal(i, t) ==
    /\ TerminalStmt(i)
    /\ ChainOf(i).root.name = "log"
    /\ Len(ChainOf(i).calls) = 2
    /\ ChainOf(i).calls[2].name = "Ctx"
    /\ ChainOf(i).calls[2].args = <<t>>

(* C13: a type whose name ends in Context, that is not context.Context and
   that does not have the four context methods, is not classified as a
   context: a terminal call whose chain holds only a Ctx call with such an
   argument is reported. *)
C13_SuffixOnlyRejected ==
    \A i \in 1..Len(prog) : \A t \in CtxArgTypes :
        ( /\ Processed(i)
          /\ CtxThenTerminal(i, t)
          /\ NameEndsInContext(t) /\ ~IsStdContext(t) /\ ~HasAllFour(t) )
        => DiagsOf(i) # {}

\* the types the claim names are rejected: foo.Context, db.Context, custom.Context
C13_NamedExamplesRejected ==
    \A i \in 1..Len(prog) : \A t \in {"FooContext", "DbContext", "CustomContext"} :
        (Processed(i) /\ CtxThenTerminal(i, t)) => DiagsOf(i) # {}

(* C14: a Ctx argument whose type string does not mention context.Context
   covers the chain exactly when the type, or for a pointer the type it
   points to, has all four methods Deadline, Done, Err and Value; the struct
   that embeds context.Context and the pointer to it are such types, a type
   with only three of the methods is not. *)
C14_StructuralIffAllFour ==
    \A i \in 1..Len(prog) : \A t \in CtxArgTypes :
        ( /\ Processed(i)
          /\ CtxThenTerminal(i, t)
          /\ t # "none"
          /\ ~Contains(TypeString(t), <<"c","o","n","t","e","x","t",".","C","o","n","t","e","x","t">>) )
        => (DiagsOf(i) = {} <=> HasAllFour(t))

\* Ctx(*CustomContext) leaves the first call unreported, Ctx of the type with
\* three of the methods leaves the second one reported
C14_Witness ==
    /\ Len(prog) = 2 /\ pending = <<>>
    /\ CtxThenTerminal(1, "CustomCtxPtr") /\ DiagsOf(1) = {}
    /\ CtxThenTerminal(2, "PartialCtxPtr") /\ DiagsOf(2) # {}

-----------------------------------------------------------------------------
\* call k of e is Ctx with a context argument made on something else than an Event
CtxOffEventAt(e, k) ==
    /\ e.calls[k].name = "Ctx"
    /\ Len(e.calls[k].args) >= 1
    /\ e.calls[k].args[1] \in ContextArgTypes
    /\ TypeOf(Prefix(e, k - 1)) # "Event"

(* C15: a Ctx(ctx) call whose receiver is not an Event (the log package, a
   logger, the Context builder) is no injection: a terminal call whose chain
   holds such a call, no Ctx(ctx) on an Event and no tracked variable at its
   start is reported; an Event variable assigned only from such a chain is
   not covered either. *)
C15_CtxOffEventNoCover ==
    \A i \in 1..Len(prog) :
        /\ ( /\ Processed(i) /\ TerminalStmt(i)
             /\ \E k \in 1..Len(ChainOf(i).calls) : CtxOffEventAt(ChainOf(i), k)
             /\ Uncovered(ChainOf(i), loggersWithContext, eventsWithContext)
             /\ ~NolintNear(i) )
           => DiagsOf(i) # {}
        /\ ( /\ Processed(i) /\ TerminalStmt(i)
             /\ ChainOf(i).root.kind = "ident" /\ ChainOf(i).calls = <<>>
             /\ \A h \in 1..Len(prog) :
                  (prog[h].kind = "assign" /\ prog[h].lhs[1].name = ChainOf(i).root.name)
                  => /\ \E k \in 1..Len(prog[h].rhs[1].calls) : CtxOffEventAt(prog[h].rhs[1], k)
                     /\ ~ChainHasValidCtx(prog[h].rhs[1]) )
           => DiagsOf(i) # {}

\* log.Ctx(ctx).Info().Msg("x") and l.Ctx(ctx).Info().Msg("x") on a tracked
\* logger l, both reported
C15_Witness ==
    /\ Len(prog) = 3 /\ pending = <<>>
    /\ prog[1].kind = "assign" /\ "l" \in loggersWithContext
    /\ TerminalStmt(2) /\ ChainOf(2).root.name = "log" /\ Len(ChainOf(2).calls) = 2
    /\ CtxOffEventAt(ChainOf(2), 1) /\ DiagsOf(2) # {}
    /\ TerminalStmt(3) /\ ChainOf(3).root.name = "l"
    /\ CtxOffEventAt(ChainOf(3), 1) /\ DiagsOf(3) # {}

-----------------------------------------------------------------------------
\* e is built with context: a logger chain with Ctx(ctx) that ends in
\* Logger(), or an Event chain with a Ctx(ctx) on an Event
BuiltWithContext(e) ==
    \/ EndsInLogger(e) /\ HasCtxWithContext(e)
    \/ TypeOf(e) = "Event" /\ ChainHasValidCtx(e)

\* statement i assigns to the variable (name n, object o) alone
AssignsVar(i, n, o) == SingleAssign(i) /\ TargetOf(i).name = n /\ TargetOf(i).obj = o

\* statement j is a completely visited terminal call, without Ctx in its own
\* chain and without nolint comment, on the Event variable (n, o) or on an
\* event made by a level method of the logger variable (n, o)
TerminalThrough(j, n, o) ==
    /\ Processed(j) /\ TerminalStmt(j)
    /\ ~ChainHasValidCtx(ChainOf(j))
    /\ ~NolintNear(j)
    /\ ChainOf(j).root.kind = "ident"
    /\ ChainOf(j).root.name = n /\ ChainOf(j).root.obj = o
    /\ (ChainOf(j).calls = <<>> \/ LevelChainOn(ChainOf(j), n))

VarNames == {"l", "e"}
VarObjs == {1, 2}

(* C16: a terminal call through a logger variable that comes before the
   assignment that gives this variable a logger built with context (and after
   no such assignment to it) is reported; a terminal call through the
   variable after such an assignment is not reported. *)
C16_LexicalOrder ==
    \A j \in 1..Len(prog) : \A o \in VarObjs :
        TerminalThrough(j, "l", o) =>
            /\ ( /\ \E i \in (j + 1)..Len(prog) : AssignsVar(i, "l", o) /\ BuiltWithContext(SourceOf(i))
                 /\ ~\E i \in 1..(j - 1) : AssignsVar(i, "l", o) /\ BuiltWithContext(SourceOf(i)) )
               => DiagsOf(j) # {}
            /\ (\E i \in 1..(j - 1) : AssignsVar(i, "l", o) /\ BuiltWithContext(SourceOf(i)))
               => DiagsOf(j) = {}

\* C16, second half alone: a call after the assignment is not reported
C16_AfterAssignmentCovered ==
    \A j \in 1..Len(prog) : \A o \in VarObjs :
        ( /\ TerminalThrough(j, "l", o)
          /\ \E i \in 1..(j - 1) : AssignsVar(i, "l", o) /\ BuiltWithContext(SourceOf(i)) )
        => DiagsOf(j) = {}

\* C16, first half when no variable of the same name was given context before
C16_BeforeAssignmentReported ==
    \A j \in 1..Len(prog) : \A o \in VarObjs :
        ( /\ TerminalThrough(j, "l", o)
          /\ ~\E i \in 1..(j - 1) : \E p \in VarObjs : AssignsVar(i, "l", p) /\ BuiltWithContext(SourceOf(i)) )
        => DiagsOf(j) # {}

(* C17: when the last assignment to a variable before a terminal call through
   it has a source that is not built with context, the call is reported, also
   if an earlier assignment gave the variable context. *)
C17_ReassignmentResets ==
    \A j \in 1..Len(prog) : \A n \in VarNames : \A o \in VarObjs :
        ( /\ TerminalThrough(j, n, o)
          /\ \E h \in 1..(j - 1) :
                /\ AssignsVar(h, n, o) /\ ~BuiltWithContext(SourceOf(h))
                /\ \A k \in (h + 1)..(j - 1) : ~AssignsVar(k, n, o)
                /\ \E i \in 1..(h - 1) : AssignsVar(i, n, o) /\ BuiltWithContext(SourceOf(i)) )
        => DiagsOf(j) # {}

(* C18: a variable given context never makes another variable of the same
   name count as context-bearing: a terminal call through variable (n, o)
   that was never assigned a value built with context is reported, also after
   an assignment of such a value to another variable named n. *)
C18_NoLeakAcrossScopes ==
    \A j \in 1..Len(prog) : \A n \in VarNames : \A o \in VarObjs :
        ( /\ TerminalThrough(j, n, o)
          /\ ~\E i \in 1..(j - 1) : AssignsVar(i, n, o) /\ BuiltWithContext(SourceOf(i))
          /\ \E i \in 1..(j - 1) : \E p \in VarObjs \ {o} :
                AssignsVar(i, n, p) /\ BuiltWithContext(SourceOf(i)) )
        => DiagsOf(j) # {}

-----------------------------------------------------------------------------
\* statement i is an assignment with more than one target
MultiAssign(i) == prog[i].kind = "assign" /\ Len(prog[i].lhs) > 1

\* the names of the identifier targets of statement i
TargetNames(i) == {prog[i].lhs[t].name : t \in {u \in 1..Len(prog[i].lhs) : prog[i].lhs[u].kind = "ident"}}

\* no assignment follows statement i
LastAssignment(i) == \A k \in (i + 1)..Len(prog) : prog[k].kind # "assign"

(* C19: once an assignment with several targets has been visited, and as
   long as no further assignment follows, none of its target names is
   recorded as context-bearing, whether a source was built with context or
   the name was recorded before. *)
C19_MultiTargetUntracked ==
    \A i \in 1..Len(prog) :
        (Processed(i) /\ MultiAssign(i) /\ LastAssignment(i))
        => TargetNames(i) \cap (loggersWithContext \cup eventsWithContext) = {}

\* C19 for  a, b := f()  alone, without earlier assignments: nothing is recorded
C19_TupleCallUntracked ==
    \A i \in 1..Len(prog) :
        ( /\ Processed(i) /\ MultiAssign(i) /\ Len(prog[i].rhs) = 1
          /\ \A k \in 1..Len(prog) : k # i => prog[k].kind # "assign" )
        => loggersWithContext \cup eventsWithContext = {}

\* what the code does with one source per target: position by position
C19_PositionwiseTracked ==
    \A i \in 1..Len(prog) :
        (Processed(i) /\ MultiAssign(i) /\ Len(prog[i].rhs) = Len(prog[i].lhs))
        => \A t \in 1..Len(prog[i].lhs) :
              (prog[i].lhs[t].kind = "ident" /\ BuiltWithContext(prog[i].rhs[t]))
              => prog[i].lhs[t].name \in (loggersWithContext \cup eventsWithContext)

(* C20: an assignment  v := <expression of type Event>  whose expression is
   rooted at a variable that an earlier assignment gave a logger or an event
   built with context records v as an event with context, and a later
   terminal call on v is not reported. *)
C20_EventFromTrackedRoot ==
    \A h \in 1..Len(prog) :
        ( /\ Processed(h) /\ SingleAssign(h)
          /\ TypeOf(SourceOf(h)) = "Event"
          /\ SourceOf(h).root.kind = "ident"
          /\ \E i \in 1..(h - 1) :
                AssignsVar(i, SourceOf(h).root.name, SourceOf(h).root.obj) /\ BuiltWithContext(SourceOf(i)) )
        => /\ TargetOf(h).name \in eventsWithContext
           /\ \A j \in (h + 1)..Len(prog) :
                 (Processed(j) /\ TerminalStmt(j) /\ ChainOf(j) = EventVar(TargetOf(h).name))
                 => DiagsOf(j) = {}

\* C20 for roots in the event map only
C20_EventFromTrackedEvent ==
    \A h \in 1..Len(prog) :
        ( /\ Processed(h) /\ SingleAssign(h)
          /\ TypeOf(SourceOf(h)) = "Event"
          /\ SourceOf(h).root.kind = "ident"
          /\ \E i \in 1..(h - 1) :
                /\ AssignsVar(i, SourceOf(h).root.name, SourceOf(h).root.obj)
                /\ TypeOf(SourceOf(i)) = "Event" /\ ChainHasValidCtx(SourceOf(i)) )
        => TargetOf(h).name \in eventsWithContext

-----------------------------------------------------------------------------
(* C21: white space between the word nolint and the colon, between the colon
   and a linter name and around the commas is tolerated: a line comment made
   of nolint, optional white space, a colon and a list that holds the linter
   name is recognized. *)
C21_WhitespaceTolerated ==
    NoLintCalled =>
        LET c == helperCall.parts
        IN  ( /\ c.marker = <<"/","/">>
              /\ c.word = <<"n","o","l","i","n","t">>
              /\ c.sep \in {<<":">>, <<" ",":">>}
              /\ \E i \in 1..Len(c.items) : c.items[i].name = helperCall.linterName )
            => helperResult = TRUE

\* C21 for white space after the colon and around the list items only
C21_SpaceAroundItemsTolerated ==
    NoLintCalled =>
        LET c == helperCall.parts
        IN  ( /\ c.marker = <<"/","/">>
              /\ c.word = <<"n","o","l","i","n","t">>
              /\ c.sep = <<":">>
              /\ \E i \in 1..Len(c.items) : c.items[i].name = helperCall.linterName )
            => helperResult = TRUE

-----------------------------------------------------------------------------
\* position p of the type string of t starts the text context.Context
MentionsStdContextAt(t, p) ==
    /\ p + 14 <= Len(TypeString(t))
    /\ \A q \in 1..15 :
          TypeString(t)[p + q - 1] = <<"c","o","n","t","e","x","t",".","C","o","n","t","e","x","t">>[q]

MentionsStdContext(t) == \E p \in 1..Len(TypeString(t)) : MentionsStdContextAt(t, p)

(* C22: for an argument type that, like its pointee, lacks one of the four
   context methods, Ctx(arg) covers the chain exactly when the type string
   contains context.Context; string, Context and contextual do not. *)
C22_NameBasedIffContains ==
    \A i \in 1..Len(prog) : \A t \in NameArgTypes :
        ( /\ Processed(i)
          /\ CtxThenTerminal(i, t)
          /\ t # "none"
          /\ ~HasAllFour(t) )
        => (DiagsOf(i) = {} <=> MentionsStdContext(t))

\* Ctx of a type of a vendored context package covers, Ctx(contextual) does not
C22_Witness ==
    /\ Len(prog) = 2 /\ pending = <<>>
    /\ CtxThenTerminal(1, "VendoredContext") /\ DiagsOf(1) = {}
    /\ CtxThenTerminal(2, "Contextual") /\ DiagsOf(2) # {}

-----------------------------------------------------------------------------
\* statement i is an expression statement that calls a terminal method
TerminalNamed(i) ==
    /\ prog[i].kind = "expr"
    /\ Len(prog[i].rhs[1].calls) >= 1
    /\ Last(prog[i].rhs[1].calls).name \in {"Msg", "Msgf", "MsgFunc", "Send"}

\* call k of e is a Ctx call whose argument or receiver has no resolved type
UntypedCtxAt(e, k) ==
    /\ e.calls[k].name = "Ctx"
    /\ (e.calls[k].args[1] = "none" \/ TypeOf(Prefix(e, k - 1)) = "none")

(* C23: a terminal method called on a receiver without resolved type is not
   reported; a Ctx call whose argument or receiver has no resolved type is no
   injection, so a terminal call on an Event whose chain holds only such Ctx
   calls and starts at no tracked variable is reported; every node can be
   handled, and when run has returned it has returned nil, nil. *)
C23_MissingTypesNoError ==
    /\ \A i \in 1..Len(prog) :
          /\ (Processed(i) /\ TerminalNamed(i) /\ TypeOf(ChainOf(i)) = "none") => DiagsOf(i) = {}
          /\ ( /\ Processed(i) /\ TerminalStmt(i)
               /\ \E k \in 1..Len(ChainOf(i).calls) : UntypedCtxAt(ChainOf(i), k)
               /\ \A k \in 1..Len(ChainOf(i).calls) :
                     ChainOf(i).calls[k].name = "Ctx" => UntypedCtxAt(ChainOf(i), k)
               /\ ChainOf(i).root.name \notin (loggersWithContext \cup eventsWithContext)
               /\ ~NolintNear(i) )
             => DiagsOf(i) # {}
    /\ pending # <<>> => ENABLED (VisitAssignStmt \/ VisitCallExpr)
    /\ returned \in {<<>>, <<"nil", "nil">>}

\* run has returned after u.Msg("x"), not reported, and log.Info().Ctx(v).Msg("x")
\* with v of unknown type, reported
C23_Witness ==
    /\ returned = <<"nil", "nil">>
    /\ Len(prog) = 2
    /\ TerminalNamed(1) /\ TypeOf(ChainOf(1)) = "none" /\ DiagsOf(1) = {}
    /\ TerminalStmt(2) /\ Len(ChainOf(2).calls) = 2
    /\ UntypedCtxAt(ChainOf(2), 2) /\ DiagsOf(2) # {}

-----------------------------------------------------------------------------
\* every stored result is what the chain of the node says
CacheAgrees ==
    \A k \in DOMAIN ctxChainCache : ctxChainCache[k] = ChainHasValidCtx(ExprAt(k))

\* the direct call returned what the chain of the node says
CachedCallAgrees ==
    (helperCall # <<>> /\ helperCall.fn = "hasCtxInChainCached")
    => helperResult = ChainHasValidCtx(ExprAt(helperCall.key))

\* a step keeps every stored result
CacheWriteOnce ==
    \A k \in DOMAIN ctxChainCache :
        k \in DOMAIN ctxChainCache' /\ ctxChainCache'[k] = ctxChainCache[k]

(* C24: the memoized check returns for every expression node what the chain
   walk finds for it (a Ctx call with a context argument on an Event
   somewhere in the chain), every stored result agrees with it, and a step
   never removes or changes a stored result. *)
C24_CacheFaithfulWriteOnce ==
    [](CacheAgrees /\ CachedCallAgrees) /\ [][CacheWriteOnce]_vars

\* the direct call read back the result true that run had stored for the node
C24_Witness ==
    /\ helperCall # <<>> /\ helperCall.fn = "hasCtxInChainCached"
    /\ helperResult = TRUE
    /\ Processed(helperCall.key.stmt)
    /\ TerminalStmt(helperCall.key.stmt)
    /\ helperCall.key.depth = Len(ChainOf(helperCall.key.stmt).calls)
    /\ helperCall.key \in DOMAIN ctxChainCache
    /\ diags = <<>>

-----------------------------------------------------------------------------
\* the last helper call was isContextType
ClassifyCalled == helperCall # <<>> /\ helperCall.fn = "isContextType"

\* what the pass decided for Ctx(t) agrees with the last direct call for t
ClassifiedAsInPass ==
    ClassifyCalled =>
        \A i \in 1..Len(prog) :
            (Processed(i) /\ CtxThenTerminal(i, helperCall.typ))
            => (DiagsOf(i) = {} <=> helperResult = TRUE)

\* a step that is a direct classification: it changes nothing but the record
\* of the call, and a repeated call for the same type returns the same value
ClassifyStepPure ==
    (ClassifyCalled' /\ <<helperCall, helperResult>>' # <<helperCall, helperResult>>)
    => /\ UNCHANGED <<prog, comments, pending, loggersWithContext, eventsWithContext,
                      ctxChainCache, diags, returned>>
       /\ (ClassifyCalled /\ helperCall'.typ = helperCall.typ) => helperResult' = helperResult

(* C25: classifying a type gives the same result whenever it is done during
   a pass, directly or by run for a Ctx argument, and a classification
   changes neither the tracking maps nor the cache nor the diagnostics. *)
C25_ClassifyDeterministicPure ==
    []ClassifiedAsInPass /\ [][ClassifyStepPure]_vars

\* *CustomContext classified as a context after the pass has reported a
\* diagnostic and has left a call with that argument type unreported
C25_Witness ==
    /\ ClassifyCalled /\ helperCall.typ = "CustomCtxPtr" /\ helperResult = TRUE
    /\ Len(prog) = 2 /\ pending = <<>>
    /\ DiagsOf(1) # {}
    /\ CtxThenTerminal(2, "CustomCtxPtr") /\ DiagsOf(2) = {}

-----------------------------------------------------------------------------
\* a chain walk is in progress / has returned
WalkRunning == helperCall # <<>> /\ helperCall.fn \in WalkFns /\ ~helperCall.done
WalkDone == helperCall # <<>> /\ helperCall.fn \in WalkFns /\ helperCall.done

\* the value the walk function returns for its arguments
WalkValue(h) ==
    CASE h.fn = "hasCtxInChain" -> hasCtxInChain(h.start)
      [] h.fn = "hasCtxInContextChain" -> hasCtxInContextChain(h.start)
      [] h.fn = "isEventFromLoggerWithContext" -> isEventFromLoggerWithContext(h.start, h.loggers)
      [] h.fn = "isEventFromVariableWithContext" -> isEventFromVariableWithContext(h.start, h.events)

\* a walk that goes on looks at a selector call and moves to the expression
\* that is one call shorter; a walk that stops keeps its place
WalkDescends ==
    WalkRunning =>
        \/ UNCHANGED helperCall
        \/ /\ WalkDone' /\ helperCall'.at = helperCall.at
        \/ /\ WalkRunning'
           /\ Len(helperCall.at.calls) > 0
           /\ helperCall'.at.root = helperCall.at.root
           /\ helperCall'.at.calls = SubSeq(helperCall.at.calls, 1, Len(helperCall.at.calls) - 1)

\* a walk that has reached an expression that is not a selector call stops
\* with its next iteration
WalkStopsAtRoot ==
    (WalkRunning /\ helperCall.at.calls = <<>> /\ helperCall' # helperCall) => WalkDone'

\* the number of assignment and call nodes of a statement
RECURSIVE CallCount(_, _)
CallCount(es, i) ==
    IF i > Len(es) THEN 0
    ELSE Len(es[i].calls) + (IF es[i].root.kind = "call" THEN 1 ELSE 0)
         + (IF es[i].root.kind = "lit" THEN CallCount(es[i].root.inner, 1) ELSE 0)
         + CallCount(es, i + 1)
NodeCount(s) == (IF s.kind = "assign" THEN 1 ELSE 0) + CallCount(s.rhs, 1)

\* the traversal takes the nodes of one statement at a time, each node once,
\* and every visit consumes exactly one node
VisitsOnce ==
    pending' # pending =>
        \/ /\ pending = <<>>
           /\ Len(prog') = Len(prog) + 1
           /\ Len(pending') = NodeCount(prog'[Len(prog')])
           /\ \A i, j \in 1..Len(pending') : pending'[i] = pending'[j] => i = j
        \/ /\ pending # <<>>
           /\ prog' = prog
           /\ pending' = Tail(pending)

(* C26: on every finite input run returns; every chain walk, whichever of
   hasCtxInChain, hasCtxInContextChain, isEventFromLoggerWithContext and
   isEventFromVariableWithContext it is, moves from a call to its receiver
   only, stops at the first expression that is not a selector call, returns,
   and returns the function's value; each assignment and call node is
   visited once. *)
C26_Terminates ==
    /\ <>(returned # <<>>)
    /\ WalkRunning ~> WalkDone
    /\ [](WalkDone => helperResult = WalkValue(helperCall))
    /\ [][WalkDescends /\ WalkStopsAtRoot /\ VisitsOnce]_vars

\* run has returned after two statements and a walk over a chain of three
\* calls has gone down to the root of the chain and returned
C26_Witness ==
    /\ returned # <<>> /\ Len(prog) = 2
    /\ WalkDone
    /\ Len(helperCall.start.calls) = 3
    /\ helperCall.at.calls = <<>>

-----------------------------------------------------------------------------
\* the step evaluates the node at the head of pending, a node of kind k
Evaluates(k) == pending # <<>> /\ Head(pending).kind = k /\ pending' = Tail(pending)

(* C27: a step that evaluates a call expression, terminal or not, leaves
   loggersWithContext and eventsWithContext unchanged; a step that processes
   an assignment statement node leaves the diagnostics unchanged; the maps
   change only in a step that processes the node of an assignment statement;
   run returns nothing but nil, nil, so the diagnostics are its only output. *)
C27_Frame ==
    [][ /\ Evaluates("CallExpr") => UNCHANGED <<loggersWithContext, eventsWithContext>>
        /\ Evaluates("AssignStmt") => UNCHANGED diags
        /\ (<<loggersWithContext, eventsWithContext>>' # <<loggersWithContext, eventsWithContext>>)
           => (Evaluates("AssignStmt") /\ prog[Head(pending).stmt].kind = "assign")
        /\ diags' # diags => Evaluates("CallExpr")
        /\ returned' \in {<<>>, <<"nil", "nil">>}
      ]_vars

\* run has returned after an assignment that added a logger to the map and a
\* terminal call, evaluated with that map, that was reported
C27_Witness ==
    /\ returned # <<>> /\ Len(prog) = 2
    /\ prog[1].kind = "assign" /\ loggersWithContext = {"l"}
    /\ TerminalStmt(2) /\ DiagsOf(2) # {}

-----------------------------------------------------------------------------
\* statement i declares the variable (n, o) with a value built with context
DeclaresWithContext(i, n, o) ==
    /\ prog[i].kind = "decl"
    /\ TargetOf(i).name = n /\ TargetOf(i).obj = o
    /\ BuiltWithContext(SourceOf(i))

\* first half of C28: the nodes of a var declaration leave both tracking maps
\* as they are, so every recorded name is the target of an assignment statement
C28_DeclNotRecorded ==
    /\ \A n \in loggersWithContext \cup eventsWithContext :
          \E i \in 1..Len(prog) : prog[i].kind = "assign" /\ TargetOf(i).name = n
    /\ (Len(prog) >= 1 /\ \A i \in 1..Len(prog) : prog[i].kind # "assign")
       => (loggersWithContext = {} /\ eventsWithContext = {})

(* C28: a logger or event introduced by a var declaration inside a function
   with a value built with Ctx(ctx) is not recorded, so a later terminal call
   through that variable, without Ctx in its own chain, is reported.  The
   declaration is the variable's only source: no assignment statement
   assigns to that variable. *)
C28_DeclaredVarReported ==
    \A i, j \in 1..Len(prog) : \A n \in VarNames : \A o \in VarObjs :
        ( /\ i < j
          /\ DeclaresWithContext(i, n, o)
          /\ TerminalThrough(j, n, o)
          /\ \A h \in 1..Len(prog) : ~AssignsVar(h, n, o) )
        => DiagsOf(j) # {}

\* var l = log.With().Ctx(ctx).Logger() followed by a reported l.Info().Msg()
C28_WitnessReported ==
    /\ Len(prog) = 2 /\ pending = <<>>
    /\ DeclaresWithContext(1, "l", 1)
    /\ TerminalThrough(2, "l", 1)
    /\ loggersWithContext = {}
    /\ DiagsOf(2) # {}

-----------------------------------------------------------------------------
\* statement i carries no comment of its own
NoOwnComment(i) == prog[i].above = <<>> /\ prog[i].trail = <<>> /\ prog[i].mid = <<>>

\* a comment naming zerologctx trails another statement h, in the file of
\* statement i, on the line immediately before the line where i starts
TrailsStatementBefore(h, i) ==
    /\ h # i
    /\ prog[h].file = prog[i].file
    /\ \/ prog[h].trail \in NolintTexts /\ prog[h].line = prog[i].line - 1
       \/ prog[h].mid \in NolintTexts /\ prog[h].line + prog[h].cont = prog[i].line - 1

(* C29: an uncovered terminal call that has no comment of its own is not
   reported when a nolint comment naming zerologctx trails a different
   statement on the line immediately before the call, whatever that other
   statement is. *)
C29_TrailingOfOtherStmtSuppresses ==
    \A i \in 1..Len(prog) :
        ( /\ Processed(i) /\ UncoveredTerminal(i) /\ NoOwnComment(i)
          /\ \E h \in 1..Len(prog) : TrailsStatementBefore(h, i) )
        => DiagsOf(i) = {}

\* x := log.With().Ctx(ctx).Logger() //nolint:zerologctx  on one line and, on
\* the next line, an uncovered terminal call that is not reported
C29_Witness ==
    /\ Len(prog) = 2 /\ pending = <<>>
    /\ prog[1].kind = "assign" /\ prog[1].trail = cmtNolint
    /\ UncoveredTerminal(2) /\ NoOwnComment(2)
    /\ prog[2].line = prog[1].line + 1
    /\ TrailsStatementBefore(1, 2)
    /\ diags = <<>>

\* the same with the comment at the end of the last line of a call written
\* over two lines
C29_WitnessContinued ==
    /\ Len(prog) = 2 /\ pending = <<>>
    /\ prog[1].cont = 1 /\ prog[1].mid = cmtNolint /\ prog[1].trail = <<>> /\ prog[1].above = <<>>
    /\ DiagsOf(1) # {}
    /\ UncoveredTerminal(2) /\ NoOwnComment(2)
    /\ TrailsStatementBefore(1, 2)
    /\ DiagsOf(2) = {}

-----------------------------------------------------------------------------
\* the three ways call k of e, a Ctx call, fails validation
CtxWithoutArgs(e, k) == e.calls[k].name = "Ctx" /\ e.calls[k].args = <<>>
CtxWithNonContext(e, k) ==
    /\ e.calls[k].name = "Ctx" /\ Len(e.calls[k].args) >= 1
    /\ e.calls[k].args[1] \notin ContextArgTypes
CtxOnNonEvent(e, k) == e.calls[k].name = "Ctx" /\ TypeOf(Prefix(e, k - 1)) # "Event"

(* C30: a terminal call whose receiver chain holds a Ctx call that fails
   validation (no argument, an argument that is no context, or a receiver
   that is not an Event) and, before or after it in the chain, a valid Ctx
   call on an Event, is not reported: the walk goes on past the failed call.
   A chain on the log package whose Ctx calls all fail is reported. *)
C30_WalkPassesInvalidCtx ==
    \A i \in 1..Len(prog) :
        (Processed(i) /\ TerminalStmt(i)) =>
            /\ ( /\ \E k \in 1..Len(ChainOf(i).calls) :
                       CtxWithoutArgs(ChainOf(i), k) \/ CtxWithNonContext(ChainOf(i), k)
                       \/ CtxOnNonEvent(ChainOf(i), k)
                 /\ \E k \in 1..Len(ChainOf(i).calls) : ValidCtxAt(ChainOf(i), k) )
               => DiagsOf(i) = {}
            /\ (\A k \in 1..Len(ChainOf(i).calls) : ~ValidCtxAt(ChainOf(i), k))
               => DiagsOf(i) # {}

\* a valid Ctx call followed in the source by one without arguments and one
\* with a string: the walk meets the two failing calls first and passes them
C30_Witness ==
    /\ Len(prog) = 1 /\ pending = <<>>
    /\ TerminalStmt(1)
    /\ Len(ChainOf(1).calls) = 4
    /\ ValidCtxAt(ChainOf(1), 2)
    /\ CtxWithoutArgs(ChainOf(1), 3)
    /\ CtxWithNonContext(ChainOf(1), 4)
    /\ diags = <<>>

\* a valid Ctx call followed in the source by a Ctx call on a receiver that
\* is not an Event
C30_WitnessNonEvent ==
    /\ Len(prog) = 1 /\ pending = <<>>
    /\ TerminalStmt(1)
    /\ \E k \in 1..Len(ChainOf(1).calls) : \E h \in 1..(k - 1) :
          CtxOnNonEvent(ChainOf(1), k) /\ ValidCtxAt(ChainOf(1), h)
             /\ \A g \in (h + 1)..Len(ChainOf(1).calls) : ~ValidCtxAt(ChainOf(1), g)
    /\ diags = <<>>
====
